---- MODULE Spec2Model ----
(***************************************************************************)
(* Photobooth server: dependency container / injector, the camera manager  *)
(* / device / component loops, the event bus and the application core.     *)
(*                                                                         *)
(* SpecDI   : DependencyContainer, DependencyInjector and a generic        *)
(*            `with add_temporary_container()` block.                      *)
(* SpecHttp : concurrent requests through the HTTP handler wrapper.        *)
(* SpecCam  : CameraDevice operations and the Camera component loops.      *)
(* SpecMgr  : CameraManager.connect on every input.                        *)
(* SpecBus  : EventBus listeners, dispatches and the tasks they start.     *)
(* SpecReg  : Photobooth._register_dependencies on every dependency map.   *)
(* SpecApp  : Photobooth.initialize, prepare and startup, with the         *)
(*            ComponentManager and the service providers.                  *)
(* SpecApi  : camera API handlers behind _camera_status_aware.             *)
(* SpecComp : ComponentManager.load_preinstalled and remove.               *)
(* SpecWs   : WebSocket connections, their messages and subscriptions.     *)
(* SpecSearch : injections of an interface whose binding cannot be built.   *)
(* SpecSnap : SpecBus with the listener list of each dispatch call kept.    *)
(* SpecSess : the SDK sessions behind connect, disconnect and the          *)
(*            CameraDisconnectedEvent listener.                            *)
(***************************************************************************)
EXTENDS Naturals, Integers, Sequences, FiniteSets, TLC

\* Python's None where an object, an implementation or a handle is expected
None == [none |-> TRUE]
\* the return annotation `-> None`
AnnNone == "None"

(***************************************************************************)
(* Bounds                                                                  *)
(***************************************************************************)
\* objects that may be constructed in one run (instances have identity = id)
MaxObj == 7
\* resolutions of one interface that are recorded between two registrations
MaxResolutions == 3

(***************************************************************************)
(* Inputs of the dependency-injection model                                *)
(***************************************************************************)
\* interface types used as keys of the container dictionaries
Ifaces == {"Request", "Model", "ICache"}

\* concurrent HTTP requests; each carries its own request object and payload
Requests == {"r1", "r2"}

\* a user of `with injector.add_temporary_container() as container:`
Scopes == {"s1"}

Procs == Requests \cup Scopes

\* the aiohttp request object of request r, and the model built from its payload
ReqIdx(r) == IF r = "r1" THEN 1 ELSE 2
ReqObj(r) == [id |-> ReqIdx(r), ty |-> "Request"]
ModelObj(r) == [id |-> Cardinality(Requests) + ReqIdx(r), ty |-> "Model"]
\* identities below this one belong to the request and model objects
FirstFreshId == 2 * Cardinality(Requests) + 1

\* Implementations handed to bind()/singleton():
\*   a class            (callable, isclass; inspect.signature(cls) has the
\*                       return annotation inspect.Signature.empty or None)
\*   a factory function (callable, with a return annotation and parameters)
\*   an instance        (not callable); built by the caller before the call
ClassImpls ==
    { [kind |-> "class", ty |-> "ICache", ann |-> "empty", deps |-> <<>>],
      [kind |-> "class", ty |-> "Model", ann |-> AnnNone, deps |-> <<>>] }

FactoryImpls ==
    { [kind |-> "factory", ty |-> "ICache", ann |-> "ICache", deps |-> <<>>],
      [kind |-> "factory", ty |-> "Model", ann |-> "Model", deps |-> <<"ICache">>],
      [kind |-> "factory", ty |-> "ICache", ann |-> "empty", deps |-> <<>>] }

CallableImpls == ClassImpls \cup FactoryImpls

\* interfaces that are concrete classes with a zero-argument constructor
NoParamClasses == {"ICache"}

\* builtin annotation types (str, int, ...): none of the interfaces is one
BuiltinTypes == {"str", "int"}

VARIABLES
    \* ---- dependency injection ----
    _bindings,      \* DependencyContainer._bindings  (class attribute)
    _singletons,    \* DependencyContainer._singletons (class attribute)
    containers,     \* DependencyInjector.containers (list of container objects)
    nextId,         \* identity of the next constructed instance
    pc,             \* position of each request wrapper / with-block
    absentAtEntry,  \* history: interfaces with no entry when the scope opened
    madeInScope,    \* history: interfaces registered on the yielded container
    got,            \* what the handler of each request was injected with
    lastCall,       \* history: the last bind()/singleton() call and outcome
    singLog,        \* history: singleton resolutions since last registration
    transLog,       \* history: transient resolutions
    lastExit        \* history: the last scope left, and the list it was left with

diVars == <<_bindings, _singletons, containers, nextId, pc,
            absentAtEntry, madeInScope, got, lastCall, singLog, transLog,
            lastExit>>

VARIABLES
    \* ---- camera ----
    camera,         \* CameraManager.camera: the active handle or None
    nextDev,        \* identity of the next CameraDevice object
    _lock,          \* CameraDevice._lock (class attribute): holder and waiters
    _is_idle,       \* Camera._is_idle
    last_active,    \* CameraDevice.last_active of each handle
    now,            \* pendulum.now(), in seconds
    task,           \* position of each task and the device operation it awaits
    lastErr,        \* history: the last _error_handler call
    lastConn,       \* history: the last CameraManager.connect call
    lastDisc,       \* history: the last finished CameraManager.disconnect call
    lastCheck       \* history: the last inactivity check

camVars == <<camera, nextDev, _lock, _is_idle, last_active, now, task,
             lastErr, lastConn, lastDisc, lastCheck>>

VARIABLES
    \* ---- event bus ----
    _listeners,     \* EventBus._listeners: the listener list of each key
    nextEv,         \* identity of the next dispatched event
    atask,          \* the _async_dispatch task of each event
    ltask,          \* the tasks asyncio.gather made for the listeners of each event
    lastDispatch    \* history: the last EventBus.dispatch call as its caller saw it

busVars == <<_listeners, nextEv, atask, ltask, lastDispatch>>

VARIABLES
    \* ---- core ----
    regCalls,       \* _register_dependencies calls made so far
    lastReg         \* history: the last _register_dependencies call

coreVars == <<regCalls, lastReg>>

VARIABLES
    \* ---- application lifecycle ----
    stage,          \* how far initialize(), prepare() and startup() have come
    DEFAULT_PROVIDERS, \* the system providers initialize() was given
    _providers,     \* Photobooth._providers, flattened in insertion order
    _components,    \* ComponentManager._components: the recorded slugs
    _components_data, \* ComponentManager._components_data: its slugs
    _manifests,     \* ComponentManager._manifests, in insertion order
    boots,          \* the tasks asyncio.gather made for the boot() calls
    appEvents,      \* the lifecycle events passed to eventbus.dispatch, in order
    registerLog,    \* history: every register() call, with the container it met
    lastLoad        \* history: the load_preinstalled call

appVars == <<stage, DEFAULT_PROVIDERS, _providers, _components, _components_data, _manifests,
             boots, appEvents, registerLog, lastLoad>>

VARIABLES
    \* ---- camera API handlers ----
    lastWrap        \* history: the last call of a _camera_status_aware wrapper

apiVars == <<lastWrap>>

VARIABLES
    \* ---- WebSocket ----
    _subscribed_clients,  \* class attribute: channel |-> list of connections
    wsconn                \* connection |-> where its _websocket_handler is,
                          \* the messages it received and its last response

wsVars == <<_subscribed_clients, wsconn>>

VARIABLES
    \* ---- SDK sessions ----
    closed          \* history of SpecSess: the handles MgrDisconnect closed

sessVars == <<closed>>

VARIABLES
    \* ---- dispatch snapshots ----
    atDispatch      \* history of SpecSnap: the listener list of the event's
                    \* kind when dispatch(event) was called

snapVars == <<atDispatch>>

\* what the actions of one part leave alone
exceptDI == <<camVars, busVars, coreVars, appVars, apiVars, wsVars, sessVars, snapVars>>
exceptCam == <<diVars, busVars, coreVars, appVars, apiVars, wsVars, sessVars, snapVars>>
exceptBus == <<diVars, camVars, coreVars, appVars, apiVars, wsVars, sessVars, snapVars>>
exceptApi == <<diVars, camVars, busVars, coreVars, appVars, wsVars, sessVars, snapVars>>
exceptWs == <<diVars, camVars, busVars, coreVars, appVars, apiVars, sessVars, snapVars>>
exceptSess == <<diVars, busVars, coreVars, appVars, apiVars, wsVars, snapVars>>
exceptSnap == <<diVars, camVars, coreVars, appVars, apiVars, wsVars, sessVars>>
\* the core registers on the container and leaves the rest of the injector
exceptCore == <<containers, pc, absentAtEntry, madeInScope, got, lastCall,
                singLog, transLog, lastExit, camVars, busVars, appVars, apiVars, wsVars, sessVars, snapVars>>
exceptApp == <<containers, pc, absentAtEntry, madeInScope, got, lastCall,
               singLog, transLog, lastExit, camVars, busVars, coreVars, apiVars, wsVars, sessVars, snapVars>>

(***************************************************************************)
(* DependencyContainer                                                     *)
(***************************************************************************)
callable(impl) == impl.kind \in {"class", "factory"}
isclass(impl) == impl.kind = "class"
\* the model's class hierarchy: a type is a subclass of itself only
issubclass(t, interface) == t = interface
\* inspect.isclass(return_annotation): Signature.empty is the class
\* inspect._empty, an interface is a class, None is not
AnnIsClass(ann) == ann # AnnNone

\* the dictionaries are class attributes: every container object reads and
\* writes the same two dictionaries, whatever container c is asked
get_bind(b, c, interface) == b[interface]
get_singleton(s, c, interface) == s[interface]

\* bind() without the check that the interface is already a singleton
BindOutcomeNoSingletonCheck(b, s, interface, impl) ==
    IF ~callable(impl) /\ ~isclass(impl) THEN "TypeError"
    ELSE IF callable(impl) /\ ~AnnIsClass(impl.ann) THEN "TypeError"
    ELSE IF callable(impl) /\ ~issubclass(impl.ann, interface) THEN "TypeError"
    ELSE "ok"

\* outcome of DependencyContainer.bind(interface, implementation)
BindOutcome(b, s, interface, impl) ==
    IF s[interface] # None THEN "ValueError"
    ELSE IF ~callable(impl) /\ ~isclass(impl) THEN "TypeError"
    ELSE IF ~callable(impl) /\ ~issubclass(impl.obj.ty, interface) THEN "TypeError"
    ELSE IF callable(impl) /\ ~AnnIsClass(impl.ann) THEN "TypeError"
    ELSE IF callable(impl) /\ ~issubclass(impl.ann, interface) THEN "TypeError"
    ELSE "ok"

\* _bindings after bind(); an exception leaves the dictionary as it was
bind(b, s, interface, impl) ==
    IF BindOutcome(b, s, interface, impl) = "ok"
    THEN [b EXCEPT ![interface] = impl]
    ELSE b

\* the instance a callable implementation produces when singleton() calls it
\* with no argument; a factory that has parameters cannot be called that way
SingletonInstance(impl, id) ==
    IF callable(impl) THEN [id |-> id, ty |-> impl.ty] ELSE impl.obj

\* outcome of DependencyContainer.singleton(interface, implementation)
SingletonOutcome(b, s, interface, impl) ==
    IF b[interface] # None THEN "ValueError"
    ELSE IF ~callable(impl) /\ isclass(impl) THEN "TypeError"
    ELSE IF ~callable(impl) /\ ~issubclass(impl.obj.ty, interface) THEN "TypeError"
    ELSE IF callable(impl) /\ impl.deps # <<>> THEN "TypeError"
    ELSE IF callable(impl) /\ ~issubclass(impl.ty, interface) THEN "TypeError"
    ELSE "ok"

\* _singletons after singleton()
singleton(b, s, interface, impl, id) ==
    IF SingletonOutcome(b, s, interface, impl) = "ok"
    THEN [s EXCEPT ![interface] = SingletonInstance(impl, id)]
    ELSE s

\* singleton() constructs an object when the implementation is callable and
\* the call is reached (the interface has no transient binding)
SingletonAllocates(b, interface, impl) ==
    b[interface] = None /\ callable(impl) /\ impl.deps = <<>>

(***************************************************************************)
(* DependencyInjector                                                      *)
(***************************************************************************)
is_builtin_type(ann) == ann \in BuiltinTypes
has_no_parameters(ann) == ann \in NoParamClasses

NotResolved(nid) == [obj |-> None, how |-> "none", nid |-> nid]

RECURSIVE ResolveParams(_, _, _, _, _, _, _)
RECURSIVE _resolve_dependency(_, _, _, _, _, _)

\* the loop of _resolve over the annotated parameters, from parameter k on;
\* named_deps is empty.  err stands for the ValueError it raises.
ResolveParams(cs, b, s, params, k, args, nid) ==
    IF k > Len(params) THEN [err |-> FALSE, args |-> args, nid |-> nid]
    ELSE IF is_builtin_type(params[k]) THEN [err |-> TRUE, args |-> args, nid |-> nid]
    ELSE LET d == _resolve_dependency(cs, b, s, params[k], nid, 1) IN
         IF d.obj # None
         THEN ResolveParams(cs, b, s, params, k + 1,
                            Append(args, [obj |-> d.obj, how |-> d.how]), d.nid)
         ELSE IF ~has_no_parameters(params[k])
         THEN [err |-> TRUE, args |-> args, nid |-> d.nid]
         ELSE ResolveParams(cs, b, s, params, k + 1,
                            Append(args, [obj |-> [id |-> d.nid, ty |-> params[k]],
                                          how |-> "fallback"]),
                            d.nid + 1)

\* _resolve_dependency with a singleton hit that builds a new instance
RECURSIVE ResolveRebuildsSingleton(_, _, _, _, _, _)
ResolveRebuildsSingleton(cs, b, s, ann, nid, k) ==
    IF k > Len(cs) THEN NotResolved(nid)
    ELSE LET dep == get_singleton(s, cs[k], ann) IN
         IF dep # None
         THEN [obj |-> [id |-> nid, ty |-> dep.ty], how |-> "singleton", nid |-> nid + 1]
         ELSE LET impl == get_bind(b, cs[k], ann) IN
              IF impl = None THEN ResolveRebuildsSingleton(cs, b, s, ann, nid, k + 1)
              ELSE LET r == ResolveParams(cs, b, s, impl.deps, 1, <<>>, nid) IN
                   IF r.err THEN NotResolved(r.nid)
                   ELSE [obj |-> [id |-> r.nid, ty |-> impl.ty],
                         how |-> "transient", nid |-> r.nid + 1]

\* _resolve_dependency that keeps the instance it built for a binding
RECURSIVE ResolveCachesTransient(_, _, _, _, _, _)
ResolveCachesTransient(cs, b, s, ann, nid, k) ==
    IF k > Len(cs) THEN NotResolved(nid)
    ELSE LET dep == get_singleton(s, cs[k], ann) IN
         IF dep # None THEN [obj |-> dep, how |-> "singleton", nid |-> nid]
         ELSE LET impl == get_bind(b, cs[k], ann) IN
              IF impl = None THEN ResolveCachesTransient(cs, b, s, ann, nid, k + 1)
              ELSE LET r == ResolveParams(cs, b, s, impl.deps, 1, <<>>, nid) IN
                   IF r.err THEN NotResolved(r.nid)
                   ELSE [obj |-> [id |-> FirstFreshId, ty |-> impl.ty],
                         how |-> "transient", nid |-> r.nid + 1]

\* the loop of _resolve_dependency over self.containers, from container k on
_resolve_dependency(cs, b, s, ann, nid, k) ==
    IF k > Len(cs) THEN NotResolved(nid)
    ELSE LET dep == get_singleton(s, cs[k], ann) IN
         IF dep # None THEN [obj |-> dep, how |-> "singleton", nid |-> nid]
         ELSE LET impl == get_bind(b, cs[k], ann) IN
              IF impl = None THEN _resolve_dependency(cs, b, s, ann, nid, k + 1)
              ELSE LET r == ResolveParams(cs, b, s, impl.deps, 1, <<>>, nid) IN
                   IF r.err THEN NotResolved(r.nid)
                   ELSE [obj |-> [id |-> r.nid, ty |-> impl.ty],
                         how |-> "transient", nid |-> r.nid + 1]

_resolve(cs, b, s, params, nid) == ResolveParams(cs, b, s, params, 1, <<>>, nid)

\* the last container the loop of _resolve_dependency looks at, from
\* container k on: the loop ends at a singleton, and at a binding whether
\* its construction returns or _resolve raises (except ValueError: break)
RECURSIVE Searched(_, _, _, _, _)
Searched(cs, b, s, ann, k) ==
    IF k > Len(cs) THEN Len(cs)
    ELSE IF get_singleton(s, cs[k], ann) # None THEN k
    ELSE IF get_bind(b, cs[k], ann) = None THEN Searched(cs, b, s, ann, k + 1)
    ELSE k

\* a scope exit written as self.containers.pop(): drops the last element
ListPop(list, c) == SubSeq(list, 1, Len(list) - 1)

\* list.remove(container): drops the first element equal to c
RECURSIVE ListRemove(_, _)
ListRemove(list, c) ==
    IF list = <<>> THEN <<>>
    ELSE IF Head(list) = c THEN Tail(list)
    ELSE <<Head(list)>> \o ListRemove(Tail(list), c)

\* interfaces for which some container on the search list has an entry
HasEntry(cs, b, s, interface) ==
    \E k \in 1..Len(cs) :
        get_bind(b, cs[k], interface) # None \/ get_singleton(s, cs[k], interface) # None

(***************************************************************************)
(* History bookkeeping                                                     *)
(***************************************************************************)
EmptyLog == [n |-> 0, objs |-> {}]

Call(op, interface, outcome) ==
    [op |-> op, iface |-> interface, outcome |-> outcome]

\* a successful registration of an interface starts a new period for it
AfterRegistration(log, interface, outcome) ==
    IF outcome = "ok" THEN [log EXCEPT ![interface] = EmptyLog] ELSE log

RECURSIVE LogArgs(_, _, _, _, _)
\* record the top-level resolutions args[k..] of the parameters params[k..]
LogArgs(log, how, params, args, k) ==
    IF k > Len(args) THEN log
    ELSE LogArgs(IF args[k].how = how
                 THEN [log EXCEPT ![params[k]] =
                          [n |-> @.n + 1, objs |-> @.objs \cup {args[k].obj}]]
                 ELSE log,
                 how, params, args, k + 1)

(***************************************************************************)
(* Actions of the dependency-injection model                               *)
(***************************************************************************)
\* the container created by Photobooth.__init__ and given to the injector
MainContainer == "main"

\* the DependencyContainer() object created by add_temporary_container for
\* the scope that process p has open (a process has one open scope at most)
TempContainer(p) == p

InstanceImpls(id) == { [kind |-> "instance", obj |-> [id |-> id, ty |-> t]] :
                         t \in {"ICache", "Model"} }

\* the containers a registration can be made on: the main one (core, proxy)
\* and the one yielded to an open with-block
OpenScope(p) == p \in Scopes /\ pc[p] = "in"

InitDI ==
    /\ _bindings = [i \in Ifaces |-> None]
    /\ _singletons = [i \in Ifaces |-> None]
    /\ containers = <<MainContainer>>
    /\ nextId = FirstFreshId
    /\ pc = [p \in Procs |-> "idle"]
    /\ absentAtEntry = [p \in Procs |-> {}]
    /\ madeInScope = [p \in Procs |-> {}]
    /\ got = [r \in Requests |-> <<>>]
    /\ lastCall = [op |-> "none", iface |-> "none", outcome |-> "none"]
    /\ singLog = [i \in Ifaces |-> EmptyLog]
    /\ transLog = [i \in Ifaces |-> EmptyLog]
    /\ lastExit = [scope |-> "none", before |-> <<>>]

\* ids the caller uses up to build the implementation it passes
Built(impl) == IF impl.kind = "instance" THEN 1 ELSE 0

\* container.bind(interface, impl) on container c
DoBind(c, interface, impl, built) ==
    LET outcome == BindOutcome(_bindings, _singletons, interface, impl) IN
    /\ _bindings' = bind(_bindings, _singletons, interface, impl)
    /\ _singletons' = _singletons
    /\ lastCall' = Call("bind", interface, outcome)
    /\ singLog' = AfterRegistration(singLog, interface, outcome)
    /\ nextId' = nextId + built

\* container.singleton(interface, impl) on container c
DoSingleton(c, interface, impl, built) ==
    LET outcome == SingletonOutcome(_bindings, _singletons, interface, impl) IN
    /\ _singletons' = singleton(_bindings, _singletons, interface, impl, nextId + built)
    /\ _bindings' = _bindings
    /\ lastCall' = Call("singleton", interface, outcome)
    /\ singLog' = AfterRegistration(singLog, interface, outcome)
    /\ nextId' = IF SingletonAllocates(_bindings, interface, impl)
                 THEN nextId + built + 1 ELSE nextId + built

\* core / proxy: dependency_container.bind(interface, implementation)
Bind(interface, impl) ==
    /\ nextId <= MaxObj
    /\ DoBind(MainContainer, interface, impl, Built(impl))
    /\ UNCHANGED <<containers, pc, absentAtEntry, madeInScope,
                   got, transLog, lastExit>>

\* core / proxy: dependency_container.singleton(interface, implementation)
Singleton(interface, impl) ==
    /\ nextId <= MaxObj
    /\ DoSingleton(MainContainer, interface, impl, Built(impl))
    /\ UNCHANGED <<containers, pc, absentAtEntry, madeInScope,
                   got, transLog, lastExit>>

\* `with injector.add_temporary_container() as container:` is entered
ScopeEnter(p) ==
    /\ p \in Scopes /\ pc[p] = "idle"
    /\ containers' = Append(containers, TempContainer(p))
    /\ absentAtEntry' = [absentAtEntry EXCEPT ![p] =
            {i \in Ifaces : ~HasEntry(containers, _bindings, _singletons, i)}]
    /\ madeInScope' = [madeInScope EXCEPT ![p] = {}]
    /\ pc' = [pc EXCEPT ![p] = "in"]
    /\ UNCHANGED <<_bindings, _singletons, nextId, got, lastCall, singLog, transLog,
                   lastExit>>

\* inside the with-block: container.bind(interface, impl)
ScopeBind(p, interface, impl) ==
    /\ OpenScope(p)
    /\ nextId <= MaxObj
    /\ DoBind(TempContainer(p), interface, impl, Built(impl))
    /\ madeInScope' = [madeInScope EXCEPT ![p] =
            IF lastCall'.outcome = "ok" THEN @ \cup {interface} ELSE @]
    /\ UNCHANGED <<containers, pc, absentAtEntry, got, transLog, lastExit>>

\* inside the with-block: container.singleton(interface, impl)
ScopeSingleton(p, interface, impl) ==
    /\ OpenScope(p)
    /\ nextId <= MaxObj
    /\ DoSingleton(TempContainer(p), interface, impl, Built(impl))
    /\ madeInScope' = [madeInScope EXCEPT ![p] =
            IF lastCall'.outcome = "ok" THEN @ \cup {interface} ELSE @]
    /\ UNCHANGED <<containers, pc, absentAtEntry, got, transLog, lastExit>>

\* the with-block is left: finally: self.containers.remove(container)
ScopeExit(p) ==
    /\ OpenScope(p)
    /\ containers' = ListRemove(containers, TempContainer(p))
    /\ lastExit' = [scope |-> p, before |-> containers]
    /\ pc' = [pc EXCEPT ![p] = "idle"]
    /\ UNCHANGED <<_bindings, _singletons, nextId, absentAtEntry,
                   madeInScope, got, lastCall, singLog, transLog>>

\* call_with_injection(handler) for a handler with one parameter annotated
\* with the interface; a ValueError of _resolve leaves nothing behind
CallWithInjection(interface) ==
    LET r == _resolve(containers, _bindings, _singletons, <<interface>>, nextId) IN
    /\ r.nid <= MaxObj + 1
    /\ singLog[interface].n < MaxResolutions
    /\ nextId' = r.nid
    /\ singLog' = LogArgs(singLog, "singleton", <<interface>>, r.args, 1)
    /\ transLog' = LogArgs(transLog, "transient", <<interface>>, r.args, 1)
    /\ UNCHANGED <<_bindings, _singletons, containers, pc,
                   absentAtEntry, madeInScope, got, lastCall, lastExit>>

(***************************************************************************)
(* HTTPComponent._get_injected_handler.wrapper, one step per stretch of    *)
(* code between two suspension points                                      *)
(***************************************************************************)
HandlerParams(hasModel) ==
    IF hasModel THEN <<"Request", "Model">> ELSE <<"Request">>

\* up to `await self._parse_request_payload(request)`: the temporary
\* container is pushed and the request object is registered on it
HttpEnter(r) ==
    LET impl == [kind |-> "instance", obj |-> ReqObj(r)]
        ok == SingletonOutcome(_bindings, _singletons, "Request", impl) = "ok"
    IN
    /\ r \in Requests /\ pc[r] \in {"idle", "done"}
    /\ DoSingleton(TempContainer(r), "Request", impl, 0)
    /\ absentAtEntry' = [absentAtEntry EXCEPT ![r] =
            {i \in Ifaces : ~HasEntry(containers, _bindings, _singletons, i)}]
    /\ madeInScope' = [madeInScope EXCEPT ![r] = IF ok THEN {"Request"} ELSE {}]
    /\ containers' = IF ok THEN Append(containers, TempContainer(r))
                     ELSE ListRemove(Append(containers, TempContainer(r)), TempContainer(r))
    /\ lastExit' = IF ok THEN lastExit
                   ELSE [scope |-> r, before |-> Append(containers, TempContainer(r))]
    /\ pc' = [pc EXCEPT ![r] = IF ok THEN "parsing" ELSE "done"]
    /\ UNCHANGED <<got, transLog>>

\* from the resumption after the payload is parsed up to the await of the
\* handler: bind_request_model, then call_with_injection resolves the
\* handler's parameters
HttpCall(r, hasModel) ==
    LET impl == [kind |-> "instance", obj |-> ModelObj(r)]
        bound == ~hasModel \/ SingletonOutcome(_bindings, _singletons, "Model", impl) = "ok"
        s1 == IF hasModel THEN singleton(_bindings, _singletons, "Model", impl, nextId)
              ELSE _singletons
        log1 == IF hasModel
                THEN AfterRegistration(singLog, "Model",
                        SingletonOutcome(_bindings, _singletons, "Model", impl))
                ELSE singLog
        res == _resolve(containers, _bindings, s1, HandlerParams(hasModel), nextId)
        ok == bound /\ ~res.err
    IN
    /\ r \in Requests /\ pc[r] = "parsing"
    /\ res.nid <= MaxObj + 1
    /\ _singletons' = s1
    /\ _bindings' = _bindings
    /\ lastCall' = IF hasModel
                   THEN Call("singleton", "Model",
                             SingletonOutcome(_bindings, _singletons, "Model", impl))
                   ELSE lastCall
    /\ madeInScope' = [madeInScope EXCEPT ![r] =
            IF hasModel /\ bound THEN @ \cup {"Model"} ELSE @]
    /\ nextId' = IF bound THEN res.nid ELSE nextId
    /\ got' = [got EXCEPT ![r] = IF ok THEN res.args ELSE <<>>]
    /\ singLog' = IF ok THEN LogArgs(log1, "singleton", HandlerParams(hasModel), res.args, 1)
                  ELSE log1
    /\ transLog' = IF ok THEN LogArgs(transLog, "transient", HandlerParams(hasModel), res.args, 1)
                   ELSE transLog
    /\ containers' = IF ok THEN containers ELSE ListRemove(containers, TempContainer(r))
    /\ lastExit' = IF ok THEN lastExit ELSE [scope |-> r, before |-> containers]
    /\ pc' = [pc EXCEPT ![r] = IF ok THEN "handler" ELSE "done"]
    /\ UNCHANGED <<absentAtEntry>>

\* the handler has returned: the with-block is left
HttpExit(r) ==
    /\ r \in Requests /\ pc[r] = "handler"
    /\ containers' = ListRemove(containers, TempContainer(r))
    /\ lastExit' = [scope |-> r, before |-> containers]
    /\ pc' = [pc EXCEPT ![r] = "done"]
    /\ UNCHANGED <<_bindings, _singletons, nextId, absentAtEntry,
                   madeInScope, got, lastCall, singLog, transLog>>

NextDI ==
    \/ \E i \in {"ICache", "Model"} :
          \E impl \in CallableImpls \cup InstanceImpls(nextId) : Bind(i, impl) /\ UNCHANGED exceptDI
    \/ \E i \in {"ICache", "Model"} :
          \E impl \in CallableImpls \cup InstanceImpls(nextId) : Singleton(i, impl) /\ UNCHANGED exceptDI
    \/ \E p \in Scopes : ScopeEnter(p) /\ UNCHANGED exceptDI
    \/ \E p \in Scopes : \E i \in {"ICache", "Model"} :
          \E impl \in CallableImpls \cup InstanceImpls(nextId) : ScopeBind(p, i, impl) /\ UNCHANGED exceptDI
    \/ \E p \in Scopes : \E i \in {"ICache", "Model"} :
          \E impl \in CallableImpls \cup InstanceImpls(nextId) : ScopeSingleton(p, i, impl) /\ UNCHANGED exceptDI
    \/ \E p \in Scopes : ScopeExit(p) /\ UNCHANGED exceptDI
    \/ \E i \in {"ICache", "Model"} : CallWithInjection(i) /\ UNCHANGED exceptDI

\* factories of ICache with a parameter no container resolves: a builtin
\* type, and an interface nothing is registered for
UnresolvableImpls ==
    { [kind |-> "factory", ty |-> "ICache", ann |-> "ICache", deps |-> <<"str">>],
      [kind |-> "factory", ty |-> "ICache", ann |-> "ICache", deps |-> <<"Request">>] }

\* registrations of such factories, with-blocks and injections
NextSearch ==
    \/ \E impl \in UnresolvableImpls \cup FactoryImpls :
          Bind("ICache", impl) /\ UNCHANGED exceptDI
    \/ \E p \in Scopes : ScopeEnter(p) /\ UNCHANGED exceptDI
    \/ \E p \in Scopes : \E impl \in UnresolvableImpls \cup FactoryImpls :
          ScopeBind(p, "ICache", impl) /\ UNCHANGED exceptDI
    \/ \E p \in Scopes : ScopeExit(p) /\ UNCHANGED exceptDI
    \/ \E i \in {"ICache", "Model"} : CallWithInjection(i) /\ UNCHANGED exceptDI

NextHttp ==
    \/ \E r \in Requests : HttpEnter(r) /\ UNCHANGED exceptDI
    \/ \E r \in Requests : \E hasModel \in BOOLEAN : HttpCall(r, hasModel) /\ UNCHANGED exceptDI
    \/ \E r \in Requests : HttpExit(r) /\ UNCHANGED exceptDI

(***************************************************************************)
(* Camera: inputs                                                          *)
(***************************************************************************)
\* last clock value of a run
MaxTime == 2
\* CameraDevice objects that may be created in one run
MaxDev == 2

\* values of the setting idle_timeout_duration, in seconds
IdleTimeouts == {1, 2}

\* the tasks of the event loop: two users of the device handle (request
\* handlers), and the two loops started by Camera._on_app_ready
Callers == {"u1", "u2"}
InactivityTask == "inactivity"
ConnectivityTask == "connectivity"
Tasks == Callers \cup {InactivityTask, ConnectivityTask}
NoTask == "nobody"

\* the coroutines of CameraDevice that take the lock
Ops == {"capture", "capture_preview", "capture_and_download", "get_config",
        "close", "ping"}
\* a decoration that also stamps ping
StampedWithPing == {"capture", "capture_preview", "capture_and_download",
                    "get_config", "ping"}

\* the ones decorated with @_camera_activity
Stamped == {"capture", "capture_preview", "capture_and_download", "get_config"}

\* SDK calls made under the lock by one operation
NCalls(op) == IF op = "capture_and_download" THEN 3 ELSE 1

\* gphoto2 error codes
Codes == {"GP_ERROR_MODEL_NOT_FOUND", "GP_ERROR_IO_USB_FIND", "GP_ERROR",
          "GP_ERROR_IO", "GP_ERROR_CAMERA_ERROR", "GP_ERROR_TIMEOUT",
          "GP_ERROR_CAMERA_BUSY"}

\* what gp.Camera.autodetect() may return: (model, address) pairs
CamX == <<"ModelX", "usb:001">>
CamY == <<"ModelY", "usb:002">>
Detected == {<<>>, <<CamX>>, <<CamY>>, <<CamX, CamY>>, <<CamY, CamX>>}
\* the address argument of connect: None, or a port address
NoAddress == "None"
Addresses == {NoAddress, "usb:001", "usb:002", "usb:009"}

(***************************************************************************)
(* CameraManager                                                           *)
(***************************************************************************)
\* Collection.first(filter): the first item the filter accepts, or None
RECURSIVE first(_, _)
first(items, address) ==
    IF items = <<>> THEN None
    ELSE IF address = NoAddress \/ Head(items)[2] = address THEN Head(items)
    ELSE first(Tail(items), address)

\* connect() that stores the handle before the SDK session is initialized
connectStoresEarly(cam, address, detected, sdkOk, dev) ==
    IF detected = <<>> THEN [camera |-> cam, raised |-> FALSE, made |-> FALSE]
    ELSE IF first(detected, address) = None
    THEN [camera |-> cam, raised |-> FALSE, made |-> FALSE]
    ELSE IF ~sdkOk THEN [camera |-> dev, raised |-> TRUE, made |-> TRUE]
    ELSE [camera |-> dev, raised |-> FALSE, made |-> TRUE]

\* CameraManager.connect(address): the handle afterwards, whether a
\* GPhoto2Error escaped, and whether a CameraDevice was created
connect(cam, address, detected, sdkOk, dev) ==
    IF detected = <<>> THEN [camera |-> cam, raised |-> FALSE, made |-> FALSE]
    ELSE IF first(detected, address) = None
    THEN [camera |-> cam, raised |-> FALSE, made |-> FALSE]
    ELSE IF ~sdkOk THEN [camera |-> cam, raised |-> TRUE, made |-> FALSE]
    ELSE [camera |-> dev, raised |-> FALSE, made |-> TRUE]

\* the CameraManager object itself
Self == [manager |-> TRUE]

\* the value CameraManager.connect(address) returns when no exception
\* escapes: every return statement is `return self`
connect_returns(cam, address, detected, sdkOk, dev) ==
    IF detected = <<>> THEN Self
    ELSE IF first(detected, address) = None THEN Self
    ELSE Self

\* the handle CameraDevice(camera, ...) number n
CameraDevice(n) == [dev |-> n]

NoExc == "none"

\* disconnect() that clears the handle only after a close without error
disconnectNoFinally(cam, exc) ==
    [camera |-> IF exc = NoExc THEN None ELSE cam,
     raised |-> exc \notin {NoExc, "DeviceUSBNotFoundError"}]

\* CameraManager.disconnect once `await self.camera.close()` has ended with
\* the exception exc: except DeviceUSBNotFoundError: pass; finally: None
disconnect(cam, exc) ==
    [camera |-> None,
     raised |-> exc \notin {NoExc, "DeviceUSBNotFoundError"}]

(***************************************************************************)
(* CameraDevice                                                            *)
(***************************************************************************)
\* an acquire that does not look at the state of the lock
acquireUnchecked(l, t) == [l EXCEPT !.holder = t]

\* asyncio.Lock.acquire by task t: taken at once when the lock is free and
\* nobody waits, otherwise t is queued behind the waiters
acquire(l, t) ==
    IF l.holder = NoTask /\ l.waiters = <<>>
    THEN [l EXCEPT !.holder = t]
    ELSE [l EXCEPT !.waiters = Append(@, t)]

\* asyncio.Lock.release: the first waiter is woken and takes the lock
release(l) ==
    IF l.waiters = <<>> THEN [holder |-> NoTask, waiters |-> <<>>]
    ELSE [holder |-> Head(l.waiters), waiters |-> Tail(l.waiters)]

\* positional arguments Event.__init__(self, data) requires
EventInitRequired == 1

\* constructing an event class that adds no __init__ of its own
\* (CameraDisconnectedEvent, CameraActiveEvent) with `given` arguments:
\* the call reaches Event.__init__, which raises TypeError when data is
\* missing
NewEvent(given) == IF given < EventInitRequired THEN "TypeError" ELSE NoExc

\* CameraDevice._error_handler: the exception raised (an unmapped
\* GPhoto2Error is named by its code) and the events dispatched.  The
\* third branch evaluates CameraDisconnectedEvent().dispatch() before its
\* raise, so the exception of the constructor is the one that leaves
_error_handler(code) ==
    IF code = "GP_ERROR_MODEL_NOT_FOUND"
    THEN [exc |-> "ModelNotFoundError", dispatch |-> 0]
    ELSE IF code = "GP_ERROR_IO_USB_FIND"
    THEN [exc |-> "DeviceUSBNotFoundError", dispatch |-> 0]
    ELSE IF code \in {"GP_ERROR", "GP_ERROR_IO", "GP_ERROR_CAMERA_ERROR"}
    THEN IF NewEvent(0) # NoExc
         THEN [exc |-> NewEvent(0), dispatch |-> 0]
         ELSE [exc |-> "CameraError", dispatch |-> 1]
    ELSE [exc |-> code, dispatch |-> 0]

\* the camera-active signal given while no camera is connected or while
\* the component is idle: `self._eventbus.dispatch(CameraActiveEvent())` in
\* _camera_status_aware and `CameraActiveEvent().dispatch()` in
\* _capture_preview construct the event with no argument
signal_active ==
    IF NewEvent(0) # NoExc THEN [exc |-> NewEvent(0), dispatch |-> 0]
    ELSE [exc |-> NoExc, dispatch |-> 1]

\* the else branch of _check_connectivity once ping() has returned:
\* `if not await camera.ping(): CameraDisconnectedEvent().dispatch()`
on_ping(pingOk) ==
    IF pingOk THEN [exc |-> NoExc, dispatch |-> 0]
    ELSE IF NewEvent(0) # NoExc THEN [exc |-> NewEvent(0), dispatch |-> 0]
    ELSE [exc |-> NoExc, dispatch |-> 1]

\* a task that is not in a device operation
Resting(pcv) == [pc |-> pcv, op |-> "none", dev |-> 0, left |-> 0]

\* an operation that starts its SDK call without waiting for the lock
EnteringUnlocked(l, t, op, dev) ==
    [pc |-> "sdk", op |-> op, dev |-> dev, left |-> NCalls(op)]

\* task t enters `async with self._lock` of operation op on handle dev
Entering(l, t, op, dev) ==
    [pc |-> IF acquire(l, t).holder = t THEN "sdk" ELSE "wait",
     op |-> op, dev |-> dev, left |-> NCalls(op)]

\* the tasks after the lock went from l to release(l): the woken waiter
\* starts its SDK call
Woken(tk, l) ==
    IF l.waiters = <<>> THEN tk
    ELSE [tk EXCEPT ![Head(l.waiters)].pc = "sdk"]

InSdk(t) == task[t].pc = "sdk"

(***************************************************************************)
(* Camera: actions                                                         *)
(***************************************************************************)
\* the class attribute last_active = pendulum.now(), set at import
ImportTime == 0

InitCam ==
    /\ camera = None
    /\ nextDev = 1
    /\ _lock = [holder |-> NoTask, waiters |-> <<>>]
    /\ _is_idle = FALSE
    /\ last_active = [d \in 1..MaxDev |-> ImportTime]
    /\ now = ImportTime
    /\ task = [t \in Tasks |-> Resting(IF t \in Callers THEN "idle" ELSE "sleep")]
    /\ lastErr = [code |-> "none", exc |-> NoExc, dispatched |-> 0]
    /\ lastConn = [address |-> NoAddress, detected |-> <<>>, sdkOk |-> TRUE,
                   raised |-> FALSE, tick |-> 0]
    /\ lastDisc = [exc |-> "never", raised |-> FALSE]
    /\ lastCheck = [timeout |-> 0, tick |-> 0]

\* the clock advances
Tick ==
    /\ now < MaxTime
    /\ now' = now + 1
    /\ UNCHANGED <<camera, nextDev, _lock, _is_idle, last_active, task,
                   lastErr, lastConn, lastDisc, lastCheck>>

\* a task calls operation op on the active handle: the _camera_activity
\* wrapper stamps last_active, then the operation enters the lock
CallerInvoke(t, op) ==
    /\ t \in Callers /\ task[t].pc = "idle"
    /\ camera # None
    /\ last_active' = IF op \in Stamped THEN [last_active EXCEPT ![camera.dev] = now]
                      ELSE last_active
    /\ _lock' = acquire(_lock, t)
    /\ task' = [task EXCEPT ![t] = Entering(_lock, t, op, camera.dev)]
    /\ UNCHANGED <<camera, nextDev, _is_idle, now, lastErr, lastConn, lastDisc,
                   lastCheck>>

\* an SDK call of the operation task t runs returns without error and the
\* operation has a further SDK call to make
SdkNext(t) ==
    /\ InSdk(t) /\ task[t].left > 1
    /\ task' = [task EXCEPT ![t].left = @ - 1]
    /\ UNCHANGED <<camera, nextDev, _lock, _is_idle, last_active, now, lastErr,
                   lastConn, lastDisc, lastCheck>>

\* the exception the operation ends with: the mapped SDK error; ping turns
\* an SDK error into False; capture hands the result of its SDK call to
\* asyncio.to_thread as if it were a function, which raises TypeError
OpException(op, outcome) ==
    IF op = "ping" THEN NoExc
    ELSE IF outcome # "ok" THEN _error_handler(outcome).exc
    ELSE IF op = "capture" THEN "TypeError"
    ELSE NoExc

\* the last SDK call of the operation of task t ends (ok, or a GPhoto2Error
\* with a code): the error is handled, the lock is released, and the task
\* runs on to its next suspension point; for the inactivity task that is
\* the rest of CameraManager.disconnect
SdkReturn(t, outcome) ==
    LET op == task[t].op
        exc == OpException(op, outcome)
        d == disconnect(camera, exc)
        freed == Woken(task, _lock)
    IN
    /\ InSdk(t)
    /\ outcome = "ok" => task[t].left = 1
    /\ _lock' = release(_lock)
    /\ lastErr' = IF op # "ping" /\ outcome # "ok"
                  THEN [code |-> outcome, exc |-> exc,
                        dispatched |-> _error_handler(outcome).dispatch]
                  ELSE lastErr
    /\ IF t = InactivityTask
       THEN /\ camera' = d.camera
            /\ lastDisc' = [exc |-> exc, raised |-> d.raised]
            /\ task' = [freed EXCEPT ![t] = Resting(IF d.raised THEN "dead" ELSE "sleep")]
       ELSE /\ UNCHANGED <<camera, lastDisc>>
            /\ task' = [freed EXCEPT ![t] = Resting("idle")]
    /\ UNCHANGED <<nextDev, _is_idle, last_active, now, lastConn, lastCheck>>

\* the comparison made by _check_inactivity against the idle timeout that
\* forgets the boundary
IsDueStrict(active, current, timeout) == current - active > timeout

\* camera.last_active.diff(now).in_seconds() >= idleTimeoutDuration
IsDue(active, current, timeout) == current - active >= timeout

\* one iteration of Camera._check_inactivity up to its next suspension:
\* either nothing to do, or _on_camera_idle up to the lock of close()
IdleCheck(timeout) ==
    /\ task[InactivityTask].pc = "sleep"
    /\ lastCheck' = [timeout |-> timeout, tick |-> 1 - lastCheck.tick]
    /\ IF camera # None /\ IsDue(last_active[camera.dev], now, timeout)
       THEN /\ _is_idle' = TRUE
            /\ _lock' = acquire(_lock, InactivityTask)
            /\ task' = [task EXCEPT ![InactivityTask] =
                          Entering(_lock, InactivityTask, "close", camera.dev)]
       ELSE UNCHANGED <<_is_idle, _lock, task>>
    /\ UNCHANGED <<camera, nextDev, last_active, now, lastErr, lastConn, lastDisc>>

\* the first iteration of Camera._check_connectivity: no camera yet, and
\* connect() returns the manager itself, which the loop passes to
\* _on_camera_connected as the camera; the manager has no get_config, so
\* the task ends with AttributeError (or with the GPhoto2Error of connect)
\* and the loop never reaches its ping branch
ConnConnect(detected, sdkOk) ==
    LET c == connect(camera, NoAddress, detected, sdkOk, CameraDevice(nextDev)) IN
    /\ task[ConnectivityTask].pc = "sleep"
    /\ ~_is_idle /\ camera = None
    /\ nextDev <= MaxDev
    /\ camera' = c.camera
    /\ nextDev' = IF c.made THEN nextDev + 1 ELSE nextDev
    /\ task' = [task EXCEPT ![ConnectivityTask] = Resting("dead")]
    /\ UNCHANGED <<_lock, _is_idle, last_active, now, lastErr, lastConn, lastDisc,
                   lastCheck>>

\* code that holds the manager calls connect(address)
MgrConnect(address, detected, sdkOk) ==
    LET c == connect(camera, address, detected, sdkOk, CameraDevice(nextDev)) IN
    /\ nextDev <= MaxDev
    /\ camera' = c.camera
    /\ nextDev' = IF c.made THEN nextDev + 1 ELSE nextDev
    /\ lastConn' = [address |-> address, detected |-> detected, sdkOk |-> sdkOk,
                    raised |-> c.raised, tick |-> 1 - lastConn.tick]
    /\ UNCHANGED <<_lock, _is_idle, last_active, now, task, lastErr, lastDisc,
                   lastCheck>>

NextCam ==
    \/ Tick /\ UNCHANGED exceptCam
    \/ \E t \in Callers : \E op \in Ops : CallerInvoke(t, op) /\ UNCHANGED exceptCam
    \/ \E t \in Tasks : SdkNext(t) /\ UNCHANGED exceptCam
    \/ \E t \in Tasks : \E outcome \in {"ok"} \cup Codes :
          SdkReturn(t, outcome) /\ UNCHANGED exceptCam
    \/ \E timeout \in IdleTimeouts : IdleCheck(timeout) /\ UNCHANGED exceptCam
    \/ \E detected \in Detected : \E sdkOk \in BOOLEAN :
          ConnConnect(detected, sdkOk) /\ UNCHANGED exceptCam

\* the component while ping() is the only operation invoked on the handle
NextIdle ==
    \/ Tick /\ UNCHANGED exceptCam
    \/ \E t \in Callers : CallerInvoke(t, "ping") /\ UNCHANGED exceptCam
    \/ \E t \in Tasks : \E outcome \in {"ok"} \cup Codes :
          SdkReturn(t, outcome) /\ UNCHANGED exceptCam
    \/ \E timeout \in IdleTimeouts : IdleCheck(timeout) /\ UNCHANGED exceptCam
    \/ \E detected \in Detected : \E sdkOk \in BOOLEAN :
          ConnConnect(detected, sdkOk) /\ UNCHANGED exceptCam

NextMgr ==
    \E address \in Addresses : \E detected \in Detected : \E sdkOk \in BOOLEAN :
        MgrConnect(address, detected, sdkOk) /\ UNCHANGED exceptCam

(***************************************************************************)
(* EventBus                                                                *)
(***************************************************************************)
\* registrations the bus may hold at a time
MaxListeners == 2
\* events dispatched in one run
MaxDispatch == 1

\* event classes
Kinds == {"EventA", "EventB"}
\* listener functions: f returns, g raises
Fns == {"f", "g"}
Raising == {"g"}
Events == 1..MaxDispatch

\* a key that _listeners does not hold
NoKey == <<"no key">>

\* add_listener: setdefault(event, []).append(listener)
add_listener(ls, event, listener) ==
    [ls EXCEPT ![event] = IF @ = NoKey THEN <<listener>> ELSE Append(@, listener)]

\* a removal that drops every occurrence of x
ListRemoveAll(l, x) == SelectSeq(l, LAMBDA y : y # x)

\* list.remove(x): the first occurrence goes; ValueError when there is none
RECURSIVE ListRemoveFirst(_, _)
ListRemoveFirst(l, x) ==
    IF l = <<>> THEN <<>>
    ELSE IF Head(l) = x THEN Tail(l)
    ELSE <<Head(l)>> \o ListRemoveFirst(Tail(l), x)

\* remove_listener: nothing for an unknown key, the ValueError of
\* list.remove is logged
remove_listener(ls, event, listener) ==
    IF ls[event] = NoKey THEN ls
    ELSE [ls EXCEPT ![event] = ListRemoveFirst(@, listener)]

\* the exception remove_listener ends with: the ValueError of list.remove
\* is caught by `except ValueError` and logged as a warning
remove_listener_raises(ls, event, listener) ==
    IF ls[event] = NoKey THEN NoExc
    ELSE IF \A i \in DOMAIN ls[event] : ls[event][i] # listener
    THEN LET raised == "ValueError"
         IN IF raised = "ValueError" THEN NoExc ELSE raised
    ELSE NoExc

\* what safe_invoke(func, event) ends with
safe_invoke(func) == IF func \in Raising THEN "raised" ELSE "returned"

\* asyncio.gather(*[safe_invoke(func, event) for func in funcs]): one task
\* per element of the list, in the order of the list
gather(funcs) == [i \in DOMAIN funcs |-> [fn |-> funcs[i], st |-> "ready"]]

\* a gather that cancels the tasks still to run when one of them raises
ChildEndsCancelling(ts, i) ==
    [j \in DOMAIN ts |->
        IF j = i THEN [ts[j] EXCEPT !.st = safe_invoke(ts[j].fn)]
        ELSE IF safe_invoke(ts[i].fn) = "raised" /\ ts[j].st = "ready"
        THEN [ts[j] EXCEPT !.st = "cancelled"]
        ELSE ts[j]]

\* child i of a gather without return_exceptions runs: its exception goes
\* to the awaiter of the gather and the other children are left alone
ChildEnds(ts, i) == [ts EXCEPT ![i].st = safe_invoke(ts[i].fn)]

\* a dispatch that awaits the listeners itself and lets their exception out
dispatchAwaiting(ls, at, lt, e, k) ==
    LET ts == IF ls[k] = NoKey THEN <<>>
              ELSE [i \in DOMAIN ls[k] |-> [fn |-> ls[k][i], st |-> safe_invoke(ls[k][i])]]
        failed == \E i \in DOMAIN ts : ts[i].st = "raised"
    IN [atask |-> [at EXCEPT ![e] = IF failed THEN "failed" ELSE "done"],
        ltask |-> [lt EXCEPT ![e] = ts],
        raised |-> failed]

\* EventBus.dispatch: asyncio.create_task(self._async_dispatch(event)); the
\* coroutine has not run when dispatch returns
dispatch(ls, at, lt, e, k) ==
    [atask |-> [at EXCEPT ![e] = "pending"], ltask |-> lt, raised |-> FALSE]

InitBus ==
    /\ _listeners = [k \in Kinds |-> NoKey]
    /\ nextEv = 1
    /\ atask = [e \in Events |-> [st |-> "none", kind |-> "none"]]
    /\ ltask = [e \in Events |-> <<>>]
    /\ lastDispatch = [ev |-> 0, raised |-> FALSE]

\* registrations held by the bus
RECURSIVE Registered(_, _)
Registered(ls, ks) ==
    IF ks = {} THEN 0
    ELSE LET k == CHOOSE x \in ks : TRUE
         IN (IF ls[k] = NoKey THEN 0 ELSE Len(ls[k])) + Registered(ls, ks \ {k})

AddListener(event, listener) ==
    /\ Registered(_listeners, Kinds) < MaxListeners
    /\ _listeners' = add_listener(_listeners, event, listener)
    /\ UNCHANGED <<nextEv, atask, ltask, lastDispatch>>

RemoveListener(event, listener) ==
    /\ _listeners' = remove_listener(_listeners, event, listener)
    /\ UNCHANGED <<nextEv, atask, ltask, lastDispatch>>

\* some code calls dispatch(event) with a new event of class k
Dispatch(k) ==
    LET at == [atask EXCEPT ![nextEv].kind = k]
        d == dispatch(_listeners, [e \in Events |-> at[e].st], ltask, nextEv, k)
    IN
    /\ nextEv <= MaxDispatch
    /\ atask' = [e \in Events |-> [st |-> d.atask[e], kind |-> at[e].kind]]
    /\ ltask' = d.ltask
    /\ lastDispatch' = [ev |-> nextEv, raised |-> d.raised]
    /\ nextEv' = nextEv + 1
    /\ UNCHANGED _listeners

\* the _async_dispatch task of event e runs up to `await safe_invokes(...)`
AsyncDispatchStart(e) ==
    /\ atask[e].st = "pending"
    /\ IF _listeners[atask[e].kind] = NoKey
       THEN /\ atask' = [atask EXCEPT ![e].st = "done"]
            /\ UNCHANGED ltask
       ELSE /\ atask' = [atask EXCEPT ![e].st = "waiting"]
            /\ ltask' = [ltask EXCEPT ![e] = gather(_listeners[atask[e].kind])]
    /\ UNCHANGED <<_listeners, nextEv, lastDispatch>>

\* the next listener task of event e runs; the tasks of one gather were
\* scheduled in list order
ListenerRun(e) ==
    /\ \E i \in DOMAIN ltask[e] :
          /\ ltask[e][i].st = "ready"
          /\ \A j \in 1..(i - 1) : ltask[e][j].st # "ready"
          /\ ltask' = [ltask EXCEPT ![e] = ChildEnds(@, i)]
    /\ UNCHANGED <<_listeners, nextEv, atask, lastDispatch>>

\* the gather of event e wakes _async_dispatch: with the first exception
\* of a child, or with the results once every child has returned
AsyncDispatchEnd(e) ==
    /\ atask[e].st = "waiting"
    /\ \/ /\ \E i \in DOMAIN ltask[e] : ltask[e][i].st = "raised"
          /\ atask' = [atask EXCEPT ![e].st = "failed"]
       \/ /\ \A i \in DOMAIN ltask[e] : ltask[e][i].st = "returned"
          /\ atask' = [atask EXCEPT ![e].st = "done"]
    /\ UNCHANGED <<_listeners, nextEv, ltask, lastDispatch>>

NextBus ==
    \/ \E k \in Kinds : \E f \in Fns : AddListener(k, f) /\ UNCHANGED exceptBus
    \/ \E k \in Kinds : \E f \in Fns : RemoveListener(k, f) /\ UNCHANGED exceptBus
    \/ \E k \in Kinds : Dispatch(k) /\ UNCHANGED exceptBus
    \/ \E e \in Events : AsyncDispatchStart(e) /\ UNCHANGED exceptBus
    \/ \E e \in Events : ListenerRun(e) /\ UNCHANGED exceptBus
    \/ \E e \in Events : AsyncDispatchEnd(e) /\ UNCHANGED exceptBus

(***************************************************************************)
(* Photobooth (core): _register_dependencies                               *)
(***************************************************************************)
\* entries of one dependency map
MaxEntries == 3
\* _register_dependencies calls in one run
MaxRegCalls == 2

\* max_attempt = 3
max_attempt == 3

\* entries of a provider's `dependencies` / `singletons` dictionary: the
\* interface and the implementation class with the annotated parameters of
\* its __init__
\*   EntryStr    needs a str: is_builtin_type makes _resolve raise ValueError
\*   EntryModel  needs a Request: resolvable once Request is registered
\*   EntryReq    needs nothing
\*   EntryReqAnn the same, with __init__ annotated `-> Request`
\*   EntryCache  needs a Model: with EntryModel and EntryReq a chain of three
EntryStr == [iface |-> "ICache",
             impl |-> [kind |-> "class", ty |-> "ICache", ann |-> "empty", deps |-> <<"str">>]]
EntryModel == [iface |-> "Model",
               impl |-> [kind |-> "class", ty |-> "Model", ann |-> AnnNone, deps |-> <<"Request">>]]
EntryReq == [iface |-> "Request",
             impl |-> [kind |-> "class", ty |-> "Request", ann |-> "empty", deps |-> <<>>]]
EntryReqAnn == [iface |-> "Request",
                impl |-> [kind |-> "class", ty |-> "Request", ann |-> "Request", deps |-> <<>>]]
EntryCache == [iface |-> "ICache",
               impl |-> [kind |-> "class", ty |-> "ICache", ann |-> "empty", deps |-> <<"Model">>]]
Entries == {EntryStr, EntryModel, EntryReq, EntryReqAnn, EntryCache}

\* a dictionary in insertion order: no key twice
IsDict(m) == \A i, j \in DOMAIN m : i # j => m[i].iface # m[j].iface
DependencyMaps ==
    {m \in UNION {[1..n -> Entries] : n \in 0..MaxEntries} : IsDict(m)}

\* DependencyInjector.inject_constructor(cls): the instance registered for
\* cls if there is one, else cls(*args) with the resolved parameters of
\* cls.__init__; ValueError when one cannot be resolved
inject_constructor(cs, b, s, cls, nid) ==
    IF ~isclass(cls) THEN [exc |-> "TypeError", obj |-> None, nid |-> nid]
    ELSE IF \E k \in 1..Len(cs) : get_singleton(s, cs[k], cls.ty) # None
    THEN [exc |-> NoExc, obj |-> s[cls.ty], nid |-> nid]
    ELSE LET r == _resolve(cs, b, s, cls.deps, nid) IN
         IF r.err THEN [exc |-> "ValueError", obj |-> None, nid |-> r.nid]
         ELSE [exc |-> NoExc, obj |-> [id |-> r.nid, ty |-> cls.ty], nid |-> r.nid + 1]

\* the state of one _register_dependencies call before its loop
RegStart(m, b, s, nid) ==
    [queues |-> m, failed |-> <<>>, attempt |-> 0, b |-> b, s |-> s, nid |-> nid,
     tries |-> [i \in Ifaces |-> 0], resolved |-> {}, exc |-> NoExc]

\* F(e), with e evaluated once and named in F
At(e, F(_)) == CHOOSE y \in {F(x) : x \in {e}} : TRUE

\* the while loop of _register_dependencies from state st on, up to its
\* return (queue empty, or break) or to the exception that leaves it
RECURSIVE RegLoop(_, _, _)
RegLoop(cs, state, flag) ==
    At(state, LAMBDA st :
    IF st.queues = <<>> THEN st
    ELSE
    At(inject_constructor(cs, st.b, st.s, Head(st.queues).impl, st.nid), LAMBDA r :
    LET e == Head(st.queues)
        ok == r.exc = NoExc
        att1 == IF ok THEN 0 ELSE st.attempt
        fl1 == IF ok THEN st.failed ELSE Append(st.failed, e)
        last == Tail(st.queues) = <<>>
        att2 == IF last THEN att1 + 1 ELSE att1
        st1 == [st EXCEPT !.queues = IF last THEN fl1 ELSE Tail(st.queues),
                          !.failed = IF last THEN <<>> ELSE fl1,
                          !.attempt = att2,
                          !.nid = r.nid,
                          !.tries = [@ EXCEPT ![e.iface] = @ + 1],
                          !.resolved = IF ok THEN @ \cup {e.iface} ELSE @]
        inst == [kind |-> "instance", obj |-> r.obj]
        out == IF flag THEN SingletonOutcome(st1.b, st1.s, e.iface, inst)
               ELSE BindOutcome(st1.b, st1.s, e.iface, e.impl)
    IN
    IF last /\ att2 > max_attempt
    THEN [st1 EXCEPT !.queues = <<>>, !.failed = fl1]
    ELSE IF ~ok THEN RegLoop(cs, st1, flag)
    ELSE IF out # "ok" THEN [st1 EXCEPT !.exc = out]
    ELSE RegLoop(cs,
           [st1 EXCEPT !.s = IF flag THEN singleton(st1.b, st1.s, e.iface, inst, st1.nid)
                             ELSE @,
                       !.b = IF flag THEN @ ELSE bind(st1.b, st1.s, e.iface, e.impl)],
           flag)))

\* Photobooth._register_dependencies(dependencies, singleton)
_register_dependencies(cs, b, s, nid, dependencies, flag) ==
    RegLoop(cs, RegStart(dependencies, b, s, nid), flag)

InitCore ==
    /\ regCalls = 0
    /\ lastReg = [map |-> <<>>, singleton |-> FALSE, tries |-> [i \in Ifaces |-> 0],
                  resolved |-> {}, dropped |-> {}, exc |-> NoExc,
                  b |-> [i \in Ifaces |-> None], s |-> [i \in Ifaces |-> None]]

\* _register_providers calls _register_dependencies with a map of a provider
RegisterDependencies(dependencies, flag) ==
    LET st == _register_dependencies(containers, _bindings, _singletons, nextId,
                                     dependencies, flag) IN
    /\ regCalls < MaxRegCalls
    /\ regCalls' = regCalls + 1
    /\ _bindings' = st.b
    /\ _singletons' = st.s
    /\ nextId' = st.nid
    /\ lastReg' = [map |-> dependencies, singleton |-> flag, tries |-> st.tries,
                   resolved |-> st.resolved,
                   dropped |-> {st.failed[i].iface : i \in DOMAIN st.failed},
                   exc |-> st.exc, b |-> _bindings, s |-> _singletons]

NextReg ==
    \E dependencies \in DependencyMaps : \E flag \in BOOLEAN :
        RegisterDependencies(dependencies, flag) /\ UNCHANGED exceptCore

(***************************************************************************)
(* Photobooth (core): initialize, prepare, startup; ComponentManager       *)
(***************************************************************************)
\* providers in DEFAULT_PROVIDERS
MaxProviders == 2
\* directories under the components path
MaxComponents == 2

\* a service provider class: its `dependencies` and `singletons`
\* dictionaries, what its register() does and what its boot() does
ServiceProvider(name, deps, singles, reg, bt) ==
    [name |-> name, dependencies |-> deps, singletons |-> singles,
     register |-> reg, boot |-> bt]

\* nothing declared, the hooks of the base class
PlainProvider == ServiceProvider("plain", <<>>, <<>>, "returns", "returns")
\* singletons declared out of order, one of them never resolvable; boot is
\* a coroutine function
SingletonsProvider ==
    ServiceProvider("singletons", <<>>, <<EntryStr, EntryModel, EntryReq>>,
                    "returns", "awaits")
\* a dependency whose __init__ is annotated with the interface; boot raises
BindingProvider ==
    ServiceProvider("binding", <<EntryReqAnn>>, <<>>, "returns", "raises")
\* a dependency that is an ordinary implementation class
ClassBindingProvider ==
    ServiceProvider("classbinding", <<EntryReq>>, <<>>, "returns", "returns")
\* register() raises
RegisterRaisesProvider ==
    ServiceProvider("registerraises", <<>>, <<>>, "raises", "returns")
\* boot is a coroutine function that raises after it was suspended
AsyncBootRaisesProvider ==
    ServiceProvider("asyncbootraises", <<>>, <<>>, "returns", "awaitsRaises")

ProviderClasses ==
    {PlainProvider, SingletonsProvider, BindingProvider, ClassBindingProvider,
     RegisterRaisesProvider, AsyncBootRaisesProvider}

\* the lists DEFAULT_PROVIDERS may be
ProviderLists == UNION {[1..n -> ProviderClasses] : n \in 0..MaxProviders}
\* the lists `providers` of a manifest may be
ManifestProviders == {<<>>} \cup {<<P>> : P \in ProviderClasses}

\* one directory under the components path: what importing its manifest
\* module gives, the fields of the manifest, whether its component module
\* imports, and the class get_module_class finds in it
ComponentDir(manifest, preinstalled, module, cls, providers) ==
    [manifest |-> manifest, preinstalled |-> preinstalled, module |-> module,
     cls |-> cls, providers |-> providers]

\* directories load_preinstalled passes over
SkippedDirs ==
    {ComponentDir("missing", FALSE, FALSE, None, <<>>),
     ComponentDir("invalid", FALSE, FALSE, None, <<>>),
     ComponentDir("valid", FALSE, TRUE, EntryReq.impl, <<>>),
     ComponentDir("valid", TRUE, FALSE, None, <<>>),
     ComponentDir("valid", TRUE, TRUE, None, <<>>)}
\* preinstalled components whose main class takes a str: inject_constructor
\* raises ValueError
UnresolvableDirs == {ComponentDir("valid", TRUE, TRUE, EntryStr.impl, <<>>)}
\* preinstalled components whose main class takes no dependency
LoadableDirs ==
    {ComponentDir("valid", TRUE, TRUE, EntryReq.impl, ps) : ps \in ManifestProviders}
ComponentDirs == SkippedDirs \cup UnresolvableDirs \cup LoadableDirs

\* the names of the directories, in the order of sorted()
Names == 1..MaxComponents
\* self._path.iterdir(): any of the names, each with its content
ComponentPaths == UNION {[S -> ComponentDirs] : S \in SUBSET Names}

\* the source of the system providers and the slug of the component in
\* directory n
System == <<"system">>
Slug(n) == <<"component", n>>

\* sorted(paths, key=name)
RECURSIVE sorted(_)
sorted(S) ==
    IF S = {} THEN <<>>
    ELSE LET n == CHOOSE x \in S : \A y \in S : x <= y IN <<n>> \o sorted(S \ {n})

\* what the core and the component manager hold while a lifecycle method runs
AppState(b, s, nid, providers, components, manifests, events, log) ==
    [b |-> b, s |-> s, nid |-> nid, providers |-> providers,
     components |-> components, manifests |-> manifests, events |-> events,
     log |-> log, exc |-> NoExc]

\* the interfaces of a dictionary of a provider
Keys(m) == {m[i].iface : i \in DOMAIN m}

\* instance.register() as the history keeps it: the declared entries that
\* the container does not hold at the call, and those the registration
\* dropped as unresolved
RegisterCall(source, P, r1, r2) ==
    [source |-> source, provider |-> P.name,
     unregistered |-> {i \in Keys(P.dependencies) : r2.b[i] = None}
                        \cup {i \in Keys(P.singletons) : r2.s[i] = None},
     dropped |-> Keys(r1.failed) \cup Keys(r2.failed),
     returned |-> P.register = "returns"]

\* Photobooth._register_providers(source, providers)
RECURSIVE _register_providers(_, _, _, _)
_register_providers(cs, state, source, providers) ==
    At(state, LAMBDA st :
    IF providers = <<>> \/ st.exc # NoExc THEN st
    ELSE
    At(_register_dependencies(cs, st.b, st.s, st.nid,
                              Head(providers).dependencies, FALSE), LAMBDA r1 :
    IF r1.exc # NoExc
    THEN [st EXCEPT !.b = r1.b, !.s = r1.s, !.nid = r1.nid, !.exc = r1.exc]
    ELSE
    At(_register_dependencies(cs, r1.b, r1.s, r1.nid,
                              Head(providers).singletons, TRUE), LAMBDA r2 :
    LET P == Head(providers)
        call == RegisterCall(source, P, r1, r2)
    IN
    IF r2.exc # NoExc
    THEN [st EXCEPT !.b = r2.b, !.s = r2.s, !.nid = r2.nid, !.exc = r2.exc]
    ELSE IF P.register = "raises"
    THEN [st EXCEPT !.b = r2.b, !.s = r2.s, !.nid = r2.nid,
                    !.log = Append(@, call), !.exc = "Exception"]
    ELSE _register_providers(cs,
            [st EXCEPT !.b = r2.b, !.s = r2.s, !.nid = r2.nid,
                       !.log = Append(@, call),
                       !.providers = Append(@, [source |-> source, cls |-> P])],
            source, Tail(providers)))))

\* ComponentManager._load_manifest: the manifest, or None
_load_manifest(dir) == IF dir.manifest = "valid" THEN dir ELSE None

\* ComponentManager._load_component: None without a module or a class, else
\* the result of inject_constructor on the class
_load_component(cs, st, dir) ==
    IF ~dir.module \/ dir.cls = None THEN [exc |-> NoExc, obj |-> None, nid |-> st.nid]
    ELSE inject_constructor(cs, st.b, st.s, dir.cls, st.nid)

\* the for loop of load_preinstalled over the sorted paths
RECURSIVE LoadLoop(_, _, _, _)
LoadLoop(cs, state, paths, names) ==
    At(state, LAMBDA st :
    IF names = <<>> \/ st.exc # NoExc THEN st
    ELSE
    At(_load_component(cs, st, paths[Head(names)]), LAMBDA component :
    LET n == Head(names)
        manifest == _load_manifest(paths[n])
    IN
    IF manifest = None THEN LoadLoop(cs, st, paths, Tail(names))
    ELSE IF ~manifest.preinstalled THEN LoadLoop(cs, st, paths, Tail(names))
    ELSE IF component.exc # NoExc
    THEN [st EXCEPT !.nid = component.nid, !.exc = component.exc]
    ELSE IF component.obj = None
    THEN LoadLoop(cs, [st EXCEPT !.nid = component.nid], paths, Tail(names))
    ELSE LoadLoop(cs,
            [st EXCEPT !.nid = component.nid,
                       !.components = @ \cup {n},
                       !.manifests = Append(@, [slug |-> Slug(n),
                                                providers |-> manifest.providers])],
            paths, Tail(names))))

\* ComponentManager.load_preinstalled()
load_preinstalled(cs, st, paths) == LoadLoop(cs, st, paths, sorted(DOMAIN paths))

\* the for loop of _load_preinstalled_components over get_all_manifests()
RECURSIVE RegisterManifests(_, _, _)
RegisterManifests(cs, state, manifests) ==
    At(state, LAMBDA st :
    IF manifests = <<>> \/ st.exc # NoExc THEN st
    ELSE RegisterManifests(cs,
            _register_providers(cs, st, Head(manifests).slug, Head(manifests).providers),
            Tail(manifests)))

\* Photobooth._load_preinstalled_components()
_load_preinstalled_components(cs, st, paths) ==
    At(load_preinstalled(cs, st, paths), LAMBDA r :
    IF r.exc # NoExc THEN r ELSE RegisterManifests(cs, r, r.manifests))

\* a prepare() that dispatches whatever the loading did
prepareDispatchAlways(r) == [r EXCEPT !.events = Append(@, "AppStartupEvent")]

\* Photobooth.prepare() once _load_preinstalled_components() has ended in
\* r: AppStartupEvent is dispatched when it returned
prepare(r) ==
    IF r.exc # NoExc THEN r ELSE [r EXCEPT !.events = Append(@, "AppStartupEvent")]

\* Photobooth.initialize(): the system providers, then AppInitializedEvent
initialize(cs, st, providers) ==
    At(_register_providers(cs, st, System, providers), LAMBDA r :
    IF r.exc # NoExc THEN r ELSE [r EXCEPT !.events = Append(@, "AppInitializedEvent")])

\* the tasks asyncio.gather makes for call_with_injection(provider.boot),
\* one for each provider of _providers
injected_boot_methods(providers) ==
    [i \in DOMAIN providers |-> [boot |-> providers[i].cls.boot, st |-> "ready"]]

\* a gather that is over as soon as one of its tasks is
GatherFirstCompleted(ts) ==
    IF \E i \in DOMAIN ts : ts[i].st = "failed" THEN "raises"
    ELSE IF ts = <<>> \/ \E i \in DOMAIN ts : ts[i].st = "done" THEN "returns"
    ELSE "pending"

\* await asyncio.gather(*injected_boot_methods): raises the first exception
\* of a task as soon as there is one, returns when every task has returned
Gather(ts) ==
    IF \E i \in DOMAIN ts : ts[i].st = "failed" THEN "raises"
    ELSE IF \A i \in DOMAIN ts : ts[i].st = "done" THEN "returns"
    ELSE "pending"

InitApp ==
    /\ stage = "constructed"
    /\ DEFAULT_PROVIDERS = <<>>
    /\ _providers = <<>>
    /\ _components = {}
    /\ _components_data = {}
    /\ _manifests = <<>>
    /\ boots = <<>>
    /\ appEvents = <<>>
    /\ registerLog = <<>>
    /\ lastLoad = [called |-> FALSE, exc |-> NoExc, failed |-> {}, others |-> {}]

\* the state a lifecycle method starts from
Current ==
    AppState(_bindings, _singletons, nextId, _providers, _components, _manifests,
             appEvents, registerLog)

\* the state a lifecycle method leaves
Leaves(r) ==
    /\ _bindings' = r.b
    /\ _singletons' = r.s
    /\ nextId' = r.nid
    /\ _providers' = r.providers
    /\ _components' = r.components
    \* load_preinstalled stores _components_data[slug] = {} with every
    \* _components[slug] = component
    /\ _components_data' = _components_data \cup (r.components \ _components)
    /\ _manifests' = r.manifests
    /\ appEvents' = r.events
    /\ registerLog' = r.log

\* main calls app.initialize()
Initialize(providers) ==
    /\ stage = "constructed"
    /\ \E r \in {initialize(containers, Current, providers)} :
          /\ Leaves(r)
          /\ stage' = IF r.exc # NoExc THEN "failed" ELSE "initialized"
    /\ DEFAULT_PROVIDERS' = providers
    /\ UNCHANGED <<boots, lastLoad>>

\* main calls app.prepare()
Prepare(paths) ==
    /\ stage = "initialized"
    /\ \E l \in {_load_preinstalled_components(containers, Current, paths)} :
       \E r \in {prepare(l)} :
          /\ Leaves(r)
          /\ stage' = IF r.exc # NoExc THEN "failed" ELSE "prepared"
    /\ lastLoad' = [called |-> TRUE,
                    exc |-> load_preinstalled(containers, Current, paths).exc,
                    failed |-> {n \in DOMAIN paths : paths[n] \in UnresolvableDirs},
                    others |-> {n \in DOMAIN paths : paths[n] \in LoadableDirs}]
    /\ UNCHANGED <<boots, DEFAULT_PROVIDERS>>

\* startup() up to its await of the gathered boot() calls: _load_settings()
\* returns or raises, then _boot_providers() makes the tasks
StartupBegin(settingsOk) ==
    /\ stage = "prepared"
    /\ IF settingsOk
       THEN stage' = "booting" /\ boots' = injected_boot_methods(_providers)
       ELSE stage' = "failed" /\ UNCHANGED boots
    /\ UNCHANGED <<_bindings, _singletons, nextId, _providers, _components, _components_data,
                   _manifests, appEvents, registerLog,
                   lastLoad, DEFAULT_PROVIDERS>>

\* the event loop runs the next boot task that has not started, up to its
\* end or to its first suspension
BootRun ==
    \E i \in DOMAIN boots :
        /\ boots[i].st = "ready"
        /\ \A j \in 1..(i - 1) : boots[j].st # "ready"
        /\ boots' = [boots EXCEPT ![i].st =
                        CASE boots[i].boot = "returns" -> "done"
                          [] boots[i].boot = "raises" -> "failed"
                          [] OTHER -> "suspended"]
        /\ UNCHANGED <<stage, _bindings, _singletons, nextId, _providers,
                       _components, _components_data, _manifests, appEvents, registerLog,
                   lastLoad, DEFAULT_PROVIDERS>>

\* a suspended boot() is resumed and ends
BootResume(i) ==
    /\ i \in DOMAIN boots
    /\ boots[i].st = "suspended"
    /\ boots' = [boots EXCEPT ![i].st =
                    IF boots[i].boot = "awaits" THEN "done" ELSE "failed"]
    /\ UNCHANGED <<stage, _bindings, _singletons, nextId, _providers,
                   _components, _components_data, _manifests, appEvents, registerLog,
                   lastLoad, DEFAULT_PROVIDERS>>

\* the await of _boot_providers() in startup() ends
BootProvidersEnds ==
    /\ stage = "booting"
    /\ Gather(boots) # "pending"
    /\ stage' = IF Gather(boots) = "returns" THEN "booted" ELSE "failed"
    /\ UNCHANGED <<boots, _bindings, _singletons, nextId, _providers,
                   _components, _components_data, _manifests, appEvents, registerLog,
                   lastLoad, DEFAULT_PROVIDERS>>

\* the rest of startup(): settings_manager.sync() and webserver.start()
\* return or raise, then AppReadyEvent is dispatched
StartupFinish(ok) ==
    /\ stage = "booted"
    /\ IF ok
       THEN stage' = "ready" /\ appEvents' = Append(appEvents, "AppReadyEvent")
       ELSE stage' = "failed" /\ UNCHANGED appEvents
    /\ UNCHANGED <<boots, _bindings, _singletons, nextId, _providers,
                   _components, _components_data, _manifests, registerLog,
                   lastLoad, DEFAULT_PROVIDERS>>

\* ComponentManager.remove(slug): `del self._components[slug]`, the
\* KeyError of a slug that is not installed is logged
remove(components, slug) == components \ {slug}

\* some code calls component_manager.remove(slug)
Remove(slug) ==
    /\ _components' = remove(_components, slug)
    /\ UNCHANGED <<stage, DEFAULT_PROVIDERS, _providers, _components_data, _manifests,
                   boots, appEvents, registerLog, lastLoad,
                   _bindings, _singletons, nextId>>

NextComp ==
    \/ \E providers \in ProviderLists : Initialize(providers) /\ UNCHANGED exceptApp
    \/ \E paths \in ComponentPaths : Prepare(paths) /\ UNCHANGED exceptApp
    \/ \E slug \in Names : Remove(slug) /\ UNCHANGED exceptApp

NextApp ==
    \/ \E providers \in ProviderLists : Initialize(providers) /\ UNCHANGED exceptApp
    \/ \E paths \in ComponentPaths : Prepare(paths) /\ UNCHANGED exceptApp
    \/ \E settingsOk \in BOOLEAN : StartupBegin(settingsOk) /\ UNCHANGED exceptApp
    \/ BootRun /\ UNCHANGED exceptApp
    \/ \E i \in 1..(MaxProviders + MaxComponents) : BootResume(i) /\ UNCHANGED exceptApp
    \/ BootProvidersEnds /\ UNCHANGED exceptApp
    \/ \E ok \in BOOLEAN : StartupFinish(ok) /\ UNCHANGED exceptApp

(***************************************************************************)
(* APIHandler: _camera_status_aware                                        *)
(***************************************************************************)
\* max_retry = 5
max_retry == 5

\* the sleep of the wrapper's loop after which the manager has a handle
\* again; max_retry + 1 when it has none after the last one
Appearances == 1..(max_retry + 1)

\* the wrapper of _camera_status_aware entered with the handle cam: the
\* exception it ends with, the events it dispatched, the sleeps it made
\* and whether it invoked the handler
_camera_status_aware(cam, appears) ==
    IF cam # None
    THEN [exc |-> NoExc, dispatch |-> 0, retry |-> 0, invoked |-> TRUE]
    ELSE IF signal_active.exc # NoExc
    THEN [exc |-> signal_active.exc, dispatch |-> 0, retry |-> 0, invoked |-> FALSE]
    ELSE IF appears <= max_retry
    THEN [exc |-> NoExc, dispatch |-> signal_active.dispatch, retry |-> appears,
          invoked |-> TRUE]
    ELSE [exc |-> "CameraError", dispatch |-> signal_active.dispatch,
          retry |-> max_retry, invoked |-> FALSE]

InitApi ==
    lastWrap = [entered |-> "never", exc |-> NoExc, dispatch |-> 0, retry |-> 0,
                invoked |-> FALSE]

\* a request reaches a handler decorated with _camera_status_aware
ApiCall(appears) ==
    LET w == _camera_status_aware(camera, appears) IN
    lastWrap' = [entered |-> IF camera = None THEN "no handle" ELSE "handle",
                 exc |-> w.exc, dispatch |-> w.dispatch, retry |-> w.retry,
                 invoked |-> w.invoked]

NextApi ==
    \/ \E address \in Addresses : \E detected \in Detected : \E sdkOk \in BOOLEAN :
          MgrConnect(address, detected, sdkOk) /\ UNCHANGED exceptCam
    \/ \E appears \in Appearances : ApiCall(appears) /\ UNCHANGED exceptApi

(***************************************************************************)
(* WebSocket: channels, subscriptions and _websocket_handler               *)
(***************************************************************************)
\* messages one connection sends in a run
MaxMessages == 3

Conns == {"w1", "w2"}
\* channels added with add_channel, and one that never was
Channels == {"preview", "status"}
MissingChannel == "missing"

\* _handlers: the commands of RoutesServiceProvider.routes
_handlers == {"subscribe", "unsubscribe"}

\* text frames a client can send: bytes that are no JSON, JSON that is no
\* object, an object without a command, an unregistered command, and the
\* two registered commands
Messages ==
    {[shape |-> sh, command |-> "none", channel |-> MissingChannel] :
        sh \in {"not json", "not a mapping", "no command"}}
    \cup {[shape |-> "ok", command |-> "bogus", channel |-> MissingChannel]}
    \cup {[shape |-> "ok", command |-> cmd, channel |-> ch] :
            cmd \in _handlers, ch \in Channels \cup {MissingChannel}}

NoResponse == [status |-> "none", command |-> "none", message |-> "none"]
WebSocketResponseMessage(status, command, message) ==
    [status |-> status, command |-> command, message |-> message]

Contains(l, x) == \E i \in DOMAIN l : l[i] = x

\* subscribe: ValueError for a channel that does not exist, else append
subscribe(sc, channel, websocket) ==
    IF channel \notin DOMAIN sc THEN [exc |-> "ValueError", clients |-> sc]
    ELSE [exc |-> NoExc, clients |-> [sc EXCEPT ![channel] = Append(@, websocket)]]

\* unsubscribe: list.remove when the channel exists and holds the connection
unsubscribe(sc, channel, websocket) ==
    IF channel \in DOMAIN sc /\ Contains(sc[channel], websocket)
    THEN [exc |-> NoExc, clients |-> [sc EXCEPT ![channel] = ListRemoveFirst(@, websocket)]]
    ELSE [exc |-> NoExc, clients |-> sc]

get_subscribers(sc, channel) == IF channel \in DOMAIN sc THEN sc[channel] ELSE <<>>
has_subscribers(sc, channel) == get_subscribers(sc, channel) # <<>>

\* WebSocketIncomingMessage(**message.json()): json.loads raises
\* JSONDecodeError and the model ValidationError, both ValueErrors; ** of
\* a value that is no mapping raises TypeError
IncomingMessage(msg) ==
    CASE msg.shape = "not json" -> "ValueError"
      [] msg.shape = "no command" -> "ValueError"
      [] msg.shape = "not a mapping" -> "TypeError"
      [] OTHER -> NoExc

\* the command handler behind ExceptionHandlerMiddleware: an exception of
\* the handler is rendered as an error response
_run_command_handler(sc, websocket, msg) ==
    LET r == IF msg.command = "subscribe"
             THEN subscribe(sc, msg.channel, websocket)
             ELSE unsubscribe(sc, msg.channel, websocket)
    IN [clients |-> r.clients,
        response |-> IF r.exc = NoExc
                     THEN WebSocketResponseMessage("success", msg.command, "none")
                     ELSE WebSocketResponseMessage("error", msg.command, r.exc)]

\* "Remove client from subscribed channels": one list.remove per channel
RemoveClient(sc, websocket) ==
    [ch \in DOMAIN sc |->
        IF Contains(sc[ch], websocket) THEN ListRemoveFirst(sc[ch], websocket)
        ELSE sc[ch]]

\* one TEXT message in the loop of _websocket_handler: the subscriptions
\* after it, the response sent and where the handler is afterwards
OnMessage(sc, websocket, msg) ==
    LET exc == IncomingMessage(msg) IN
    IF exc = "ValueError"
    THEN [clients |-> sc, pc |-> "open",
          response |-> WebSocketResponseMessage("error", "unknown",
                                                "Invalid message format.")]
    ELSE IF exc # NoExc
    THEN [clients |-> sc, pc |-> "raised", response |-> NoResponse]
    ELSE IF msg.command \notin _handlers
    THEN [clients |-> sc, pc |-> "returned",
          response |-> WebSocketResponseMessage("error", msg.command,
                                                "Unknown command.")]
    ELSE LET r == _run_command_handler(sc, websocket, msg)
         IN [clients |-> r.clients, pc |-> "open", response |-> r.response]

InitWs ==
    /\ _subscribed_clients = [ch \in Channels |-> <<>>]
    /\ wsconn = [c \in Conns |-> [pc |-> "new", received |-> 0, response |-> NoResponse]]

\* websocket.prepare(request)
WsPrepare(c) ==
    /\ wsconn[c].pc = "new"
    /\ wsconn' = [wsconn EXCEPT ![c].pc = "open"]
    /\ UNCHANGED _subscribed_clients

\* the loop receives one TEXT message
WsMessage(c, msg) ==
    /\ wsconn[c].pc = "open"
    /\ wsconn[c].received < MaxMessages
    /\ \E r \in {OnMessage(_subscribed_clients, c, msg)} :
          /\ _subscribed_clients' = r.clients
          /\ wsconn' = [wsconn EXCEPT ![c] = [pc |-> r.pc, received |-> @.received + 1,
                                              response |-> r.response]]

\* the client's message stream ends: the loop is left and the connection
\* is removed from the channels
WsStreamEnds(c) ==
    /\ wsconn[c].pc = "open"
    /\ _subscribed_clients' = RemoveClient(_subscribed_clients, c)
    /\ wsconn' = [wsconn EXCEPT ![c].pc = "returned"]

NextWs ==
    \/ \E c \in Conns : WsPrepare(c) /\ UNCHANGED exceptWs
    \/ \E c \in Conns : \E msg \in Messages : WsMessage(c, msg) /\ UNCHANGED exceptWs
    \/ \E c \in Conns : WsStreamEnds(c) /\ UNCHANGED exceptWs

(***************************************************************************)
(* SDK sessions: connect, disconnect and _on_camera_disconnected           *)
(***************************************************************************)
\* Camera._on_camera_disconnected(event): the handle and the idle flag
\* afterwards; the event names no handle and the active one is not looked at
_on_camera_disconnected(cam, idle) == [camera |-> None, _is_idle |-> FALSE]

\* the handles made so far, and those whose SDK session was never closed
Made == 1..(nextDev - 1)
OpenSessions == Made \ closed

InitSess == closed = {}

\* CameraManager.disconnect() while no operation holds the lock: close()
\* runs on the active handle and ends with exc
MgrDisconnect(exc) ==
    /\ camera # None
    /\ _lock.holder = NoTask
    /\ closed' = closed \cup {camera.dev}
    /\ camera' = disconnect(camera, exc).camera
    /\ lastDisc' = [exc |-> exc, raised |-> disconnect(camera, exc).raised]
    /\ UNCHANGED <<nextDev, _lock, _is_idle, last_active, now, task, lastErr,
                   lastConn, lastCheck>>

\* the bus delivers a CameraDisconnectedEvent that reports a failure of
\* handle h to the listener of the camera component
OnCameraDisconnected(h) ==
    /\ h \in Made
    /\ camera' = _on_camera_disconnected(camera, _is_idle).camera
    /\ _is_idle' = _on_camera_disconnected(camera, _is_idle)._is_idle
    /\ UNCHANGED <<nextDev, _lock, last_active, now, task, lastErr, lastConn,
                   lastDisc, lastCheck, closed>>

NextSess ==
    \/ \E address \in Addresses : \E detected \in Detected : \E sdkOk \in BOOLEAN :
          MgrConnect(address, detected, sdkOk) /\ UNCHANGED exceptCam
    \/ \E exc \in {NoExc, "DeviceUSBNotFoundError", "CameraError"} :
          MgrDisconnect(exc) /\ UNCHANGED exceptSess
    \/ \E h \in 1..MaxDev : OnCameraDisconnected(h) /\ UNCHANGED exceptSess

(***************************************************************************)
(* EventBus: what dispatch(event) saw                                      *)
(***************************************************************************)
InitSnap == atDispatch = [e \in Events |-> NoKey]

\* dispatch(event) of a new event of class k, with the listener list of k
\* at the call kept
DispatchSnap(k) ==
    /\ Dispatch(k)
    /\ atDispatch' = [atDispatch EXCEPT ![nextEv] = _listeners[k]]

NextSnap ==
    \/ \E k \in Kinds : \E f \in Fns :
          AddListener(k, f) /\ UNCHANGED atDispatch /\ UNCHANGED exceptSnap
    \/ \E k \in Kinds : \E f \in Fns :
          RemoveListener(k, f) /\ UNCHANGED atDispatch /\ UNCHANGED exceptSnap
    \/ \E k \in Kinds : DispatchSnap(k) /\ UNCHANGED exceptSnap
    \/ \E e \in Events :
          AsyncDispatchStart(e) /\ UNCHANGED atDispatch /\ UNCHANGED exceptSnap
    \/ \E e \in Events : ListenerRun(e) /\ UNCHANGED atDispatch /\ UNCHANGED exceptSnap
    \/ \E e \in Events :
          AsyncDispatchEnd(e) /\ UNCHANGED atDispatch /\ UNCHANGED exceptSnap

vars == <<diVars, camVars, busVars, coreVars, appVars, apiVars, wsVars, sessVars, snapVars>>

Init == InitDI /\ InitCam /\ InitBus /\ InitCore /\ InitApp /\ InitApi /\ InitWs /\ InitSess /\ InitSnap

\* registrations, with-blocks and injections
SpecDI == Init /\ [][NextDI]_vars

\* concurrent HTTP requests
SpecHttp == Init /\ [][NextHttp]_vars

\* the camera component: device operations and the two polling loops
SpecCam == Init /\ [][NextCam]_vars

\* CameraManager.connect on every input
SpecMgr == Init /\ [][NextMgr]_vars

\* the event bus: listeners, dispatches and the tasks they start
SpecBus == Init /\ [][NextBus]_vars

\* initialize(), prepare() and startup(), one after the other
SpecApp == Init /\ [][NextApp]_vars

\* _register_dependencies on every dependency map
SpecReg == Init /\ [][NextReg]_vars

\* the component manager: loading, then removals
SpecComp == Init /\ [][NextComp]_vars

\* requests to the camera API with and without a connected camera
SpecApi == Init /\ [][NextApi]_vars

\* WebSocket connections and the messages they send
SpecWs == Init /\ [][NextWs]_vars

\* the inactivity loop keeps iterating and every SDK call returns
FairIdle ==
    /\ WF_vars(\E timeout \in IdleTimeouts : IdleCheck(timeout) /\ UNCHANGED exceptCam)
    /\ \A t \in Tasks :
          WF_vars(\E outcome \in {"ok"} \cup Codes :
                     SdkReturn(t, outcome) /\ UNCHANGED exceptCam)

\* a connected camera on which only ping() is invoked, with the inactivity
\* loop scheduled and SDK calls that return
SpecIdle == Init /\ [][NextIdle]_vars /\ FairIdle

\* the event bus with the listeners each dispatch call saw
SpecSnap == Init /\ [][NextSnap]_vars

\* injections of an interface whose binding cannot be constructed
SpecSearch == Init /\ [][NextSearch]_vars

\* the manager's handle through connects, disconnects and disconnect events
SpecSess == Init /\ [][NextSess]_vars

(***************************************************************************)
(* Claims about the container and the injector                             *)
(***************************************************************************)
Range(f) == {f[x] : x \in DOMAIN f}

ScopeCloses(p) ==
    /\ TempContainer(p) \in Range(containers)
    /\ TempContainer(p) \notin Range(containers')

\* C2: an interface that had no entry when the scope was entered and was
\* registered on the yielded container has no entry on any container of the
\* search list once the scope has exited.
C2_TemporaryBindingGone ==
    [][\A p \in Procs :
          ScopeCloses(p) =>
              \A i \in absentAtEntry[p] \cap madeInScope[p] :
                  ~HasEntry(containers', _bindings', _singletons', i)]_vars

NeverBoth == \A i \in Ifaces : ~(_bindings[i] # None /\ _singletons[i] # None)

\* C3: no interface is both a transient binding and a singleton; bind fails
\* on an interface that is a singleton, singleton fails on an interface that
\* has a transient binding, and a failing call changes neither dictionary.
C3_BindingXorSingleton ==
    /\ []NeverBoth
    /\ [][/\ lastCall'.outcome \in {"ValueError", "TypeError"} =>
                (_bindings' = _bindings /\ _singletons' = _singletons)
          /\ (lastCall'.op = "bind" /\ lastCall'.outcome = "ok") =>
                _singletons[lastCall'.iface] = None
          /\ (lastCall'.op = "singleton" /\ lastCall'.outcome = "ok") =>
                _bindings[lastCall'.iface] = None]_vars

\* a bind was refused because the interface is a singleton
C3_Witness ==
    /\ lastCall.op = "bind" /\ lastCall.outcome = "ValueError"
    /\ _singletons[lastCall.iface] # None

\* C4: all resolutions of a singleton interface made since its last
\* registration returned one and the same instance.
C4_SingletonIdentity ==
    \A i \in Ifaces : Cardinality(singLog[i].objs) <= 1

\* an interface was resolved as a singleton twice since its registration
C4_Witness ==
    \E i \in Ifaces : singLog[i].n >= 2 /\ _singletons[i] \in singLog[i].objs

\* C5: the resolutions of a transient binding returned pairwise distinct
\* instances: as many instances as resolutions.
C5_TransientFresh ==
    \A i \in Ifaces : Cardinality(transLog[i].objs) = transLog[i].n

\* a bound interface was resolved twice
C5_Witness ==
    \E i \in Ifaces : transLog[i].n >= 2 /\ _bindings[i] # None

C7_DisconnectClearsHandle ==
    [][lastDisc' # lastDisc =>
          /\ camera' = None
          /\ lastDisc'.exc = "DeviceUSBNotFoundError" =>
                /\ ~lastDisc'.raised
                /\ task'[InactivityTask].pc = "sleep"]_vars

\* a disconnect whose close() raised DeviceUSBNotFoundError has returned
C7_Witness ==
    /\ lastDisc.exc = "DeviceUSBNotFoundError"
    /\ ~lastDisc.raised
    /\ camera = None

\* a device of the autodetect result is accepted for the address
Matching(address, detected) ==
    \E i \in DOMAIN detected : address = NoAddress \/ detected[i][2] = address

\* C8: connect(address) changes the active handle only when a device
\* matching the address is detected and the SDK session initializes; with
\* no device detected it returns without raising and the handle is
\* unchanged; when the SDK fails the handle is unchanged
C8_ConnectChangesHandleOnlyOnSuccess ==
    [][lastConn' # lastConn =>
          /\ camera' # camera =>
                /\ Matching(lastConn'.address, lastConn'.detected)
                /\ lastConn'.sdkOk
                /\ ~lastConn'.raised
          /\ lastConn'.detected = <<>> => (~lastConn'.raised /\ camera' = camera)
          /\ (Matching(lastConn'.address, lastConn'.detected) /\ ~lastConn'.sdkOk) =>
                camera' = camera]_vars

\* a handle exists and the latest connect failed inside the SDK
C8_Witness ==
    /\ camera # None
    /\ Matching(lastConn.address, lastConn.detected)
    /\ ~lastConn.sdkOk
    /\ lastConn.raised

\* C9: the outcome of _error_handler is fixed by the class of the code:
\* model-not-found raises ModelNotFoundError without an event,
\* USB-device-not-found raises DeviceUSBNotFoundError without an event,
\* generic / I-O / camera error raises CameraError with exactly one
\* CameraDisconnectedEvent, any other code re-raises the SDK error without
\* an event
C9_ErrorHandlerMapping ==
    lastErr.code # "none" =>
        /\ lastErr.code = "GP_ERROR_MODEL_NOT_FOUND" =>
              (lastErr.exc = "ModelNotFoundError" /\ lastErr.dispatched = 0)
        /\ lastErr.code = "GP_ERROR_IO_USB_FIND" =>
              (lastErr.exc = "DeviceUSBNotFoundError" /\ lastErr.dispatched = 0)
        /\ lastErr.code \in {"GP_ERROR", "GP_ERROR_IO", "GP_ERROR_CAMERA_ERROR"} =>
              (lastErr.exc = "CameraError" /\ lastErr.dispatched = 1)
        /\ lastErr.code \in {"GP_ERROR_TIMEOUT", "GP_ERROR_CAMERA_BUSY"} =>
              (lastErr.exc = lastErr.code /\ lastErr.dispatched = 0)

\* the inactivity check of this step found a camera whose idle time has
\* reached the timeout it read
CheckDue == camera # None /\ now - last_active[camera.dev] >= lastCheck'.timeout

\* C10: at an inactivity check with a camera connected, an idle time of at
\* least idle_timeout forces a disconnect, after which the active handle is
\* None and the idle flag is set; a shorter idle time changes neither the
\* handle nor the idle flag
C10_InactivityCheck ==
    /\ [][lastCheck' # lastCheck /\ camera # None =>
             IF CheckDue
             THEN /\ _is_idle'
                  /\ task'[InactivityTask].op = "close"
             ELSE /\ camera' = camera
                  /\ _is_idle' = _is_idle
                  /\ task'[InactivityTask] = task[InactivityTask]]_vars
    /\ [][lastDisc' # lastDisc => (camera' = None /\ _is_idle')]_vars
    /\ [](task[InactivityTask].op = "close" => _is_idle)

\* a forced disconnect has finished for a camera that was idle for exactly
\* the timeout
C10_Witness ==
    /\ lastDisc.exc # "never"
    /\ camera = None
    /\ _is_idle
    /\ \E d \in 1..MaxDev : now - last_active[d] = lastCheck.timeout

\* task t leaves its operation by returning a value: the last SDK call of
\* capture_preview, capture_and_download or get_config ends without error,
\* or ping ends in either way (capture never returns: see OpException)
Returns(t) ==
    \/ /\ task[t].op \in {"capture_preview", "capture_and_download", "get_config"}
       /\ SdkReturn(t, "ok")
    \/ /\ task[t].op = "ping"
       /\ \E outcome \in {"ok"} \cup Codes : SdkReturn(t, outcome)

\* C11: each device operation stamps last_active when it completes: after
\* the operation returns, last_active of its handle is the time of the
\* return, not the time it was invoked or queued for the lock
C11_StampedOnCompletion ==
    [][\A t \in Callers :
          Returns(t) => last_active'[task[t].dev] = now']_vars

\* C12: when an event is dispatched to a kind with N listeners of which M
\* raise, all N listeners are invoked: the gather makes one task for every
\* listener of the list, and a task that has not run yet is never dropped
\* or cancelled by what the other listeners do: it stays ready until it is
\* invoked
C12_EveryListenerInvoked ==
    /\ [][\A e \in Events :
            (atask[e].st = "pending" /\ atask'[e].st = "waiting") =>
                /\ Len(ltask'[e]) = Len(_listeners[atask[e].kind])
                /\ \A i \in DOMAIN ltask'[e] :
                      /\ ltask'[e][i].fn = _listeners[atask[e].kind][i]
                      /\ ltask'[e][i].st = "ready"]_vars
    /\ [][\A e \in Events :
            atask[e].st \in {"waiting", "failed", "done"} =>
                /\ DOMAIN ltask'[e] = DOMAIN ltask[e]
                /\ \A i \in DOMAIN ltask[e] :
                      /\ ltask'[e][i].fn = ltask[e][i].fn
                      /\ ltask[e][i].st = "ready" =>
                            ltask'[e][i].st \in {"ready", "returned", "raised"}
                      /\ ltask[e][i].st # "ready" =>
                            ltask'[e][i].st = ltask[e][i].st]_vars
    /\ [](\A e \in Events : \A i \in DOMAIN ltask[e] :
            ltask[e][i].st \in {"ready", "returned", "raised"})

\* a listener has returned after the listener before it raised
C12_Witness ==
    \E e \in Events :
        /\ Len(ltask[e]) = 2
        /\ ltask[e][1].st = "raised"
        /\ ltask[e][2].st = "returned"
        /\ atask[e].st = "failed"

\* C13: dispatch(event) returns to its caller before any listener has run,
\* and no listener failure is ever raised to the caller of dispatch
C13_DispatchDoesNotWait ==
    /\ [][nextEv' # nextEv =>
             /\ ~lastDispatch'.raised
             /\ atask'[nextEv].st = "pending"
             /\ ltask' = ltask]_vars
    /\ [](~lastDispatch.raised)

\* a listener of the last dispatched event has raised, after dispatch had
\* returned normally
C13_Witness ==
    \E e \in Events :
        /\ lastDispatch.ev = e
        /\ atask[e].st = "failed"
        /\ ~lastDispatch.raised

\* invocations of listener function f with event e
Invocations(e, f) ==
    Cardinality({i \in DOMAIN ltask[e] :
                    ltask[e][i].fn = f /\ ltask[e][i].st # "ready"})

\* C14: for every dispatched event and every listener function, the
\* function is invoked at most once with that event, whatever add_listener
\* and remove_listener calls came before
C14_AtMostOncePerListener ==
    \A e \in Events : \A f \in Fns : Invocations(e, f) <= 1

Declared == {lastReg.map[i].iface : i \in DOMAIN lastReg.map}

\* the last call registered interface i as its flag says
RegisteredByCall(i) ==
    IF lastReg.singleton
    THEN _singletons[i] # None /\ _singletons[i].ty = i
    ELSE \E k \in DOMAIN lastReg.map :
            lastReg.map[k].iface = i /\ _bindings[i] = lastReg.map[k].impl

\* the entries of the last call that no pass can resolve: a parameter of the
\* constructor is annotated with a builtin type
NeverResolved ==
    {k \in DOMAIN lastReg.map :
        \E d \in DOMAIN lastReg.map[k].impl.deps :
            is_builtin_type(lastReg.map[k].impl.deps[d])}

\* C18: _register_dependencies ends for every dependency map, and when
\* entries cannot be resolved it returns normally: no exception, the
\* unresolved entries left as they were and every resolved entry registered
C18_ReturnsWithResolvedRegistered ==
    (regCalls > 0 /\ NeverResolved # {}) =>
        /\ lastReg.exc = NoExc
        /\ \A i \in Declared \ lastReg.resolved :
              _bindings[i] = lastReg.b[i] /\ _singletons[i] = lastReg.s[i]
        /\ \A i \in lastReg.resolved : RegisteredByCall(i)

\* C19: a camera failure raised inside an iteration of a polling loop does
\* not stop the loop: after a connect() that raises in _check_connectivity
\* and after a disconnect() that raises in _check_inactivity, the loop is
\* at its sleep and runs its next tick
C19_LoopSurvivesCameraFailure ==
    [][/\ \A detected \in Detected : \A sdkOk \in BOOLEAN :
             (/\ ConnConnect(detected, sdkOk)
              /\ connect(camera, NoAddress, detected, sdkOk,
                         CameraDevice(nextDev)).raised)
                => task'[ConnectivityTask].pc = "sleep"
       /\ \A outcome \in {"ok"} \cup Codes :
             (SdkReturn(InactivityTask, outcome) /\ lastDisc'.raised)
                => task'[InactivityTask].pc = "sleep"]_vars

\* the classes whose register() returned for `source`, in call order
RegisteredOf(source) ==
    LET calls == SelectSeq(registerLog,
                           LAMBDA c : c.source = source /\ c.returned)
    IN [k \in DOMAIN calls |-> calls[k].provider]

\* the classes of a list of providers
ClassNames(providers) == [k \in DOMAIN providers |-> providers[k].name]

\* every provider's register() has returned once AppStartupEvent is dispatched
RegisterBeforeStartupEvent ==
    "AppStartupEvent" \in Range(appEvents) =>
        /\ RegisteredOf(System) = ClassNames(DEFAULT_PROVIDERS)
        /\ \A m \in DOMAIN _manifests :
              RegisteredOf(_manifests[m].slug) = ClassNames(_manifests[m].providers)

\* C15: in the prepare stage the register() of every provider (the system
\* providers and those of every loaded component) has returned before
\* AppStartupEvent is dispatched, and when the register() of a provider is
\* called the container holds every entry of its dependencies and
\* singletons that registration resolved; the entries missing are those
\* dropped as unresolved
C15_RegisterAfterRegistration ==
    /\ RegisterBeforeStartupEvent
    /\ \A k \in DOMAIN registerLog :
          registerLog[k].unregistered \subseteq registerLog[k].dropped

\* AppStartupEvent is dispatched after the register() of a system provider
\* and of a component's provider, one of them with a dropped entry
C15_Witness ==
    /\ "AppStartupEvent" \in Range(appEvents)
    /\ \E j, k \in DOMAIN registerLog :
          /\ registerLog[j].source = System /\ registerLog[j].returned
          /\ registerLog[k].source # System /\ registerLog[k].returned
          /\ registerLog[k].dropped # {}

\* C15 as stated: every declared dependency and singleton of a provider is
\* registered in the container before its register() is called
C15_AllDeclaredRegistered ==
    /\ RegisterBeforeStartupEvent
    /\ \A k \in DOMAIN registerLog : registerLog[k].unregistered = {}

\* C16: AppReadyEvent is dispatched only after the boot() of every
\* registered provider has completed, and if a boot() fails AppReadyEvent is
\* never dispatched
C16_ReadyAfterEveryBoot ==
    /\ "AppReadyEvent" \in Range(appEvents) =>
          /\ DOMAIN boots = DOMAIN _providers
          /\ \A i \in DOMAIN boots : boots[i].st = "done"
    /\ (\E i \in DOMAIN boots : boots[i].st = "failed") =>
          "AppReadyEvent" \notin Range(appEvents)

\* AppReadyEvent is dispatched after the boots of two providers or more, one
\* of them a coroutine that was suspended
C16_Witness ==
    /\ "AppReadyEvent" \in Range(appEvents)
    /\ Len(boots) >= 2
    /\ \E i \in DOMAIN boots : boots[i].boot = "awaits"

\* C20: when inject_constructor fails on the main class of one component
\* during load_preinstalled, load_preinstalled does not raise and every
\* other preinstalled component with a valid manifest is recorded
C20_OnlyFailingComponentSkipped ==
    (lastLoad.called /\ lastLoad.failed # {}) =>
        /\ lastLoad.exc = NoExc
        /\ lastLoad.others \subseteq _components

\* the process p leaves its add_temporary_container() scope in this step
LeavesScope(p) ==
    /\ pc[p] \in {"in", "parsing", "handler"}
    /\ pc'[p] \in {"idle", "done"}

\* the list without its k-th element
Without(list, k) == SubSeq(list, 1, k - 1) \o SubSeq(list, k + 1, Len(list))

\* C21: when a scope of add_temporary_container() is left, normally or by
\* an exception, exactly the container that scope pushed is removed from the
\* search list and the other containers keep their order; no other step
\* removes a container
C21_ExitRemovesOwnContainer ==
    [][/\ \A p \in Procs :
             LeavesScope(p) =>
                \E k \in DOMAIN containers :
                    /\ containers[k] = TempContainer(p)
                    /\ \A j \in DOMAIN containers :
                          containers[j] = TempContainer(p) => j = k
                    /\ containers' = Without(containers, k)
       /\ (\A p \in Procs : ~LeavesScope(p)) =>
             \/ containers' = containers
             \/ \E p \in Procs : containers' = Append(containers, TempContainer(p))]_vars

\* a scope was left while a scope opened after it was still open
C21_Witness ==
    /\ lastExit.scope \in Procs
    /\ \E k \in DOMAIN lastExit.before :
          /\ lastExit.before[k] = TempContainer(lastExit.scope)
          /\ 1 < k /\ k < Len(lastExit.before)
          /\ containers = Without(lastExit.before, k)

\* the first position of x in the list l, 0 when there is none
FirstIndex(l, x) ==
    IF \E i \in DOMAIN l : l[i] = x
    THEN CHOOSE i \in DOMAIN l : l[i] = x /\ \A j \in 1..(i - 1) : l[j] # x
    ELSE 0

RequestHolders(cs) ==
    {k \in DOMAIN cs : cs[k] \in Requests /\ "Request" \in madeInScope[cs[k]]}

\* C23: resolution of a parameter type returns the entry of the first
\* container, in the order the containers were added, that has an entry for
\* the type: the web.Request a handler receives is the one registered on the
\* first container of the list that had a request registered on it
C23_FirstContainerEntryReturned ==
    [][\A r \in Requests :
          (pc[r] = "parsing" /\ pc'[r] = "handler" /\ RequestHolders(containers) # {}) =>
             \E k \in RequestHolders(containers) :
                /\ \A j \in RequestHolders(containers) : k <= j
                /\ got'[r][1].obj = ReqObj(containers[k])]_vars

\* C24: a zero-argument factory registered with singleton(interface,
\* factory) is not invoked at registration time (no object is constructed by
\* the registration); it is invoked once, at the first resolution
C24_FactoryNotInvokedAtRegistration ==
    [][\A i \in Ifaces : \A impl \in FactoryImpls :
          (impl.deps = <<>> /\ issubclass(impl.ty, i) /\ Singleton(i, impl)) =>
             /\ nextId' = nextId
             /\ _singletons'[i] = _singletons[i]]_vars

\* C25: synchronous listeners run inline in dispatch: when dispatch(event)
\* returns, every listener registered for the class of the event has
\* already been invoked
C25_ListenersInvokedWhenDispatchReturns ==
    [][\A k \in Kinds :
          (Dispatch(k) /\ _listeners[k] # NoKey) =>
             /\ Len(ltask'[nextEv]) = Len(_listeners[k])
             /\ \A i \in DOMAIN ltask'[nextEv] :
                   ltask'[nextEv][i].st \in {"returned", "raised"}]_vars

\* C26: CameraManager.connect() returns the connected camera device handle
\* when the connection succeeds and None when no camera is found
C26_ConnectReturnsHandleOrNone ==
    [][\A address \in Addresses : \A detected \in Detected : \A sdkOk \in BOOLEAN :
          LET c == connect(camera, address, detected, sdkOk, CameraDevice(nextDev))
              ret == connect_returns(camera, address, detected, sdkOk,
                                     CameraDevice(nextDev))
          IN (MgrConnect(address, detected, sdkOk) /\ ~c.raised) =>
                IF c.made THEN ret = c.camera ELSE ret = None]_vars

\* every entry of the map can be resolved in some order: each parameter of
\* its constructor is the interface of another entry of the map, and no
\* entry needs itself through the others
RECURSIVE Resolvable(_, _)
Resolvable(pending, have) ==
    IF pending = {} THEN TRUE
    ELSE LET ready == {e \in pending : \A i \in DOMAIN e.impl.deps : e.impl.deps[i] \in have}
         IN ready # {} /\ Resolvable(pending \ ready, have \cup {e.iface : e \in ready})

\* C27: for every dependency map whose entries can all be resolved in some
\* order, _register_dependencies registers every entry, whatever the
\* declaration order of the map: a call on such a map, made with none of its
\* interfaces registered before, returns with an entry for each of them
C27_EveryResolvableEntryRegistered ==
    (/\ regCalls > 0
     /\ lastReg.map # <<>>
     /\ Resolvable(Range(lastReg.map), {})
     /\ \A i \in Declared : lastReg.b[i] = None /\ lastReg.s[i] = None)
    => /\ lastReg.exc = NoExc
       /\ \A i \in Declared :
             _bindings[i] # None \/ _singletons[i] # None

\* the same for calls with singleton=True only
C27_SingletonModeRegistersAll ==
    lastReg.singleton => C27_EveryResolvableEntryRegistered

\* a chain of three declared in the worst order was registered
C27_ChainOfThree ==
    /\ lastReg.map = <<EntryCache, EntryModel, EntryReq>>
    /\ lastReg.singleton
    /\ lastReg.tries = [i \in Ifaces |-> IF i = "ICache" THEN 3 ELSE IF i = "Model" THEN 2 ELSE 1]
    /\ \A i \in Ifaces : _singletons[i] # None

\* the _check_connectivity task is still in its loop
ConnectivityLoopRuns == task[ConnectivityTask].pc # "dead"

\* C28: the idle flag, set by the idle-timeout disconnect, is cleared by
\* handling a CameraActiveEvent or a CameraDisconnectedEvent, after which
\* the next connectivity iteration attempts connect(): while the flag is
\* set the connectivity loop is running (it only skips connect() and
\* ping()), and the camera-active signal dispatches its event
C28_IdleEndsWithReconnect ==
    _is_idle =>
        /\ ConnectivityLoopRuns
        /\ signal_active.exc = NoExc
        /\ signal_active.dispatch = 1

\* C29: when the connectivity loop finds a camera connected and ping()
\* returns false, a CameraDisconnectedEvent is dispatched (and the handle
\* is None before the next iteration): while a camera is connected the
\* loop is running to ping it, and its branch for a false ping dispatches
\* the event
C29_FailedPingDisconnects ==
    camera # None =>
        /\ ConnectivityLoopRuns
        /\ on_ping(FALSE).exc = NoExc
        /\ on_ping(FALSE).dispatch = 1

\* task t is in close() and runs gp_camera.exit
Closing(t) == InSdk(t) /\ task[t].op = "close"

C31_SignalsWaitsThenCameraError ==
    lastWrap.entered = "no handle" =>
        /\ lastWrap.dispatch = 1
        /\ lastWrap.retry <= max_retry
        /\ lastWrap.exc \in {NoExc, "CameraError"}
        /\ lastWrap.exc = "CameraError" <=> ~lastWrap.invoked

\* the slugs of the manifest map
ManifestSlugs == {_manifests[i].slug : i \in DOMAIN _manifests}

\* C32: ComponentManager.remove(slug) removes the component along with its
\* manifest and its data: after any sequence of load_preinstalled and
\* remove calls the component map, the component-data map and the manifest
\* map have the same set of slugs
C32_MapsHaveTheSameSlugs ==
    /\ _components_data = _components
    /\ ManifestSlugs = {Slug(n) : n \in _components}
(***************************************************************************)
(* Claims about the WebSocket                                              *)
(***************************************************************************)
\* a message with an invalid format or an unknown command
Rejected(msg) == msg.shape # "ok" \/ msg.command \notin _handlers

\* C33: a message with an invalid format or an unknown command is answered
\* with an error response and the loop of the connection goes on with the
\* following messages
C33_RejectedMessageKeepsLoop ==
    [][\A c \in Conns : \A msg \in Messages :
          WsMessage(c, msg) /\ Rejected(msg) =>
              /\ wsconn'[c].response.status = "error"
              /\ wsconn'[c].pc = "open"]_vars

\* C40: a connection whose handler has returned is in no channel's list
\* and has_subscribers(channel) is true only while an open connection is
\* subscribed to the channel
C40_ReturnedConnectionNotSubscribed ==
    /\ \A c \in Conns : wsconn[c].pc \in {"returned", "raised"} =>
          \A ch \in Channels : ~Contains(_subscribed_clients[ch], c)
    /\ \A ch \in Channels : has_subscribers(_subscribed_clients, ch) =>
          \E c \in Conns : wsconn[c].pc = "open" /\ Contains(_subscribed_clients[ch], c)
(***************************************************************************)
(* Claims about the SDK sessions                                           *)
(***************************************************************************)
\* C34: a CameraDisconnectedEvent caused by a failure of handle h clears the
\* manager's active handle only if h is the active handle when the event is
\* handled
C34_LateEventLeavesNewerHandle ==
    [][\A h \in 1..MaxDev :
          OnCameraDisconnected(h) /\ camera # None /\ camera' = None =>
              camera = CameraDevice(h)]_vars

\* C36: close() has been called on every handle that stops being the active
\* one, and at most one SDK session is open at any time
C36_ReplacedHandleIsClosed ==
    [][/\ camera # None /\ camera' # camera => camera.dev \in closed'
       /\ Cardinality(OpenSessions') <= 1]_vars
\* the largest idle timeout the setting takes
MaxIdleTimeout == CHOOSE x \in IdleTimeouts : \A y \in IdleTimeouts : y <= x

\* a camera is connected and nothing has stamped it for the idle timeout
ConnectedAndDue ==
    camera # None /\ IsDue(last_active[camera.dev], now, MaxIdleTimeout)

\* C37: a connected camera on which no capture, preview or config operation
\* is invoked for the idle timeout is eventually disconnected by the
\* inactivity loop (no handle, idle flag set), whatever pings are made
C37_IdleCameraIsDisconnected ==
    ConnectedAndDue ~> (camera = None /\ _is_idle)

\* the inactivity loop has disconnected the camera while a ping was queued
C37_Witness ==
    /\ camera = None /\ _is_idle /\ lastDisc.exc # "never"
    /\ \E t \in Callers : task[t].op = "ping"
(***************************************************************************)
(* Claims about the listeners of a dispatch                                *)
(***************************************************************************)
\* C38: an event is delivered to exactly the listeners that were registered
\* for its kind when dispatch(event) was called
C38_DeliveredToListenersAtDispatch ==
    [][\A e \in Events :
          AsyncDispatchStart(e) =>
              ltask'[e] = IF atDispatch[e] = NoKey THEN <<>>
                          ELSE gather(atDispatch[e])]_vars
(***************************************************************************)
(* Claims about operations on a closed handle                              *)
(***************************************************************************)
\* C35: once close() has completed on the handle, no operation makes an SDK
\* call on it; under SpecCam the only handle is the one the idle disconnect
\* closes, and lastDisc tells that its close() has ended
C35_NoSdkCallAfterClose ==
    lastDisc.exc # "never" =>
        \A t \in Callers : ~(InSdk(t) /\ task[t].op # "close")
(***************************************************************************)
(* Claims about the search through the containers                          *)
(***************************************************************************)
\* the interface has no singleton and the first binding the search finds
\* cannot be constructed: _resolve raises ValueError for its parameters
Unconstructible(i) ==
    /\ _singletons[i] = None /\ _bindings[i] # None
    /\ ResolveParams(containers, _bindings, _singletons, _bindings[i].deps, 1,
                     <<>>, nextId).err

\* C39: when the transient binding found in an earlier container cannot be
\* constructed, the search goes on through the later containers
C39_SearchGoesOnAfterFailedBinding ==
    [][\A i \in Ifaces :
          CallWithInjection(i) /\ Unconstructible(i) /\ Len(containers) > 1 =>
              Searched(containers, _bindings, _singletons, i, 1) = Len(containers)]_vars
====
